---- MODULE Spec2Model ----
(***************************************************************************)
(* Session store and session state machine of tg-tracker                   *)
(* (src/database.py), with the bot handlers of src/bot.py as callers.      *)
(*                                                                         *)
(* Time is counted in ticks of 1/Sub second, so that the two ways the code *)
(* derives whole seconds (int() of a difference in Python, a difference of *)
(* strftime('%s') values in SQL) are computed as the code computes them.   *)
(***************************************************************************)
EXTENDS Integers, Sequences, FiniteSets, TLC

(* ---- bounds of the model ---- *)
Sub == 2
MaxClock == 2
MaxRows == 2
MaxSent == 4

Users == {1, 2}
Categories == {"work", "study"}
Reasons == {"break", "lunch"}
Procs == {"p1", "p2"}

(* ---- values of the store ---- *)
NULL == -1

ACTIVE == "active"
PAUSED == "paused"
COMPLETED == "completed"

VARIABLES
    clock,      \* datetime.datetime.now(), in ticks of 1/Sub second
    sessions,   \* table sessions: sequence of rows, row i has id i
    breaks,     \* table breaks: sequence of rows, row i has id i
    last,       \* the Database call that returned last, and its result
    calls,      \* per task: the Database call in progress (overlapping calls)
    settings,   \* table reminder_settings: user_id -> row, for users with a row
    sent_reminders, \* table sent_reminders: sequence of rows
    tz,         \* local time minus UTC on the host, in ticks
    file,       \* categories.json as the file system holds it
    config,     \* the module globals of config.py
    app         \* the bot process: where main() is, and its background tasks

\* the reminder tables and the host's UTC offset
remvars == <<settings, sent_reminders, tz>>

\* the category file and the globals loaded from it
cfgvars == <<file, config>>

\* the bot process
appvars == <<app>>

vars == <<clock, sessions, breaks, last, calls, settings, sent_reminders, tz,
          file, config, app>>

\* a table with no row
NoRows == [u \in {} |-> 0]

\* no categories.json in the working directory
NoFile ==
    [exists |-> FALSE, readable |-> TRUE, mtime |-> 0,
     content |-> [json |-> "malformed",
                  work |-> [kind |-> "absent", items |-> <<>>],
                  note |-> [kind |-> "absent", items |-> <<>>]]]

\* the globals of config.py at import: empty lists, _last_file_mtime = 0.0
NotLoaded ==
    [_work_categories |-> <<>>, _note_categories |-> <<>>, _last_file_mtime |-> 0]

\* the process before main() is called: no event loop, no task
NotStarted == [pc |-> "start", tasks |-> {}]

NoCall == [op |-> "none", user_id |-> 0, arg |-> "", ret |-> 0]
Idle == [pc |-> "idle", op |-> "none", user_id |-> 0, arg |-> "", now |-> 0,
         sid |-> 0]

Returned(op, u, arg, ret) == [op |-> op, user_id |-> u, arg |-> arg, ret |-> ret]

(* ---- arithmetic of the code ---- *)

\* int((now - start_time).total_seconds()): whole seconds of a difference
PySeconds(now, start) == (now - start) \div Sub

\* strftime('%s', t): the unix second a timestamp falls in
StrftimeS(t) == t \div Sub

\* strftime('%s', ?) - strftime('%s', start_time)
SqlSeconds(now, start) == StrftimeS(now) - StrftimeS(start)

(* ---- statements of the code ---- *)

Min(S) == CHOOSE x \in S : \A y \in S : x <= y

\* variant: the lookup leaves out the user
SelectSession_anyuser_mut(ss, u, statuses) ==
    LET found == {i \in DOMAIN ss : ss[i].status \in statuses}
    IN  IF found = {} THEN 0 ELSE Min(found)

\* SELECT * FROM sessions WHERE user_id = ? AND status IN (...), fetchone():
\* the first row in rowid order, 0 when there is none
SelectSession(ss, u, statuses) ==
    LET found == {i \in DOMAIN ss : ss[i].user_id = u /\ ss[i].status \in statuses}
    IN  IF found = {} THEN 0 ELSE Min(found)

\* variant: the new row's end time is set to the time of the insert
InsertSession_ended_mut(ss, u, now, c) ==
    Append(ss, [id |-> Len(ss) + 1, user_id |-> u, start_time |-> now,
                end_time |-> now, duration |-> NULL, status |-> ACTIVE,
                category |-> c])

\* INSERT INTO sessions (user_id, start_time, status, category)
InsertSession(ss, u, now, c) ==
    Append(ss, [id |-> Len(ss) + 1, user_id |-> u, start_time |-> now,
                end_time |-> NULL, duration |-> NULL, status |-> ACTIVE,
                category |-> c])

\* the breaks table, summed: closed breaks of one session
RECURSIVE BreakSeconds(_, _)
BreakSeconds(bs, sid) ==
    IF bs = <<>> THEN 0
    ELSE (IF Head(bs).session_id = sid /\ Head(bs).duration # NULL
          THEN Head(bs).duration ELSE 0) + BreakSeconds(Tail(bs), sid)

\* variant: the time spent in breaks is taken off the session's duration
CompleteSession_net_mut(ss, sid, now, start) ==
    [ss EXCEPT ![sid].end_time = now,
               ![sid].duration = PySeconds(now, start) - BreakSeconds(breaks, sid),
               ![sid].status = COMPLETED]

\* variant: the UPDATE sets end_time and duration and leaves the status
CompleteSession_keepstatus_mut(ss, sid, now, start) ==
    [ss EXCEPT ![sid].end_time = now,
               ![sid].duration = PySeconds(now, start)]

\* UPDATE sessions SET end_time = ?, duration = ?, status = ? WHERE id = ?
CompleteSession(ss, sid, now, start) ==
    [ss EXCEPT ![sid].end_time = now,
               ![sid].duration = PySeconds(now, start),
               ![sid].status = COMPLETED]

\* UPDATE sessions SET status = ? WHERE id = ?
SetStatus(ss, sid, st) == [ss EXCEPT ![sid].status = st]

\* variant: the default reason is stored whatever reason was given
InsertBreak_default_mut(bs, sid, u, now, reason) ==
    Append(bs, [id |-> Len(bs) + 1, session_id |-> sid, user_id |-> u,
                start_time |-> now, end_time |-> NULL, duration |-> NULL,
                reason |-> "break"])

\* INSERT INTO breaks (session_id, user_id, start_time, reason)
InsertBreak(bs, sid, u, now, reason) ==
    Append(bs, [id |-> Len(bs) + 1, session_id |-> sid, user_id |-> u,
                start_time |-> now, end_time |-> NULL, duration |-> NULL,
                reason |-> reason])

\* variant: the open breaks of every session are closed
CloseBreaks_anysession_mut(bs, sid, now) ==
    [i \in DOMAIN bs |->
        IF bs[i].end_time = NULL
        THEN [bs[i] EXCEPT !.end_time = now,
                           !.duration = SqlSeconds(now, bs[i].start_time)]
        ELSE bs[i]]

\* variant: resume leaves the open break as it is
CloseBreaks_none_mut(bs, sid, now) == bs

\* UPDATE breaks SET end_time = ?, duration = (strftime - strftime)
\* WHERE session_id = ? AND end_time IS NULL
CloseBreaks(bs, sid, now) ==
    [i \in DOMAIN bs |->
        IF bs[i].session_id = sid /\ bs[i].end_time = NULL
        THEN [bs[i] EXCEPT !.end_time = now,
                           !.duration = SqlSeconds(now, bs[i].start_time)]
        ELSE bs[i]]

(* ---- Database operations, one call at a time ---- *)

\* variant: no lookup of an open session before the insert
start_nocheck_mut(u, c) ==
    /\ Len(sessions) + Len(breaks) < MaxRows
    /\ sessions' = InsertSession(sessions, u, clock, c)
    /\ last' = Returned("start", u, c, Len(sessions) + 1)
    /\ UNCHANGED <<clock, breaks, calls, remvars, cfgvars, appvars>>

\* variant: on conflict the id of the existing session is returned
start_existing_mut(u, c) ==
    LET active_session == SelectSession(sessions, u, {ACTIVE, PAUSED})
    IN  /\ \/ /\ active_session # 0
              /\ last' = Returned("start", u, c, active_session)
              /\ UNCHANGED sessions
           \/ /\ active_session = 0
              /\ Len(sessions) + Len(breaks) < MaxRows
              /\ sessions' = InsertSession(sessions, u, clock, c)
              /\ last' = Returned("start", u, c, Len(sessions) + 1)
        /\ UNCHANGED <<clock, breaks, calls, remvars, cfgvars, appvars>>

start_work_session(u, c) ==
    LET active_session == SelectSession(sessions, u, {ACTIVE, PAUSED})
    IN  /\ \/ /\ active_session # 0
              /\ last' = Returned("start", u, c, -1)
              /\ UNCHANGED sessions
           \/ /\ active_session = 0
              /\ Len(sessions) + Len(breaks) < MaxRows
              /\ sessions' = InsertSession(sessions, u, clock, c)
              /\ last' = Returned("start", u, c, Len(sessions) + 1)
        /\ UNCHANGED <<clock, breaks, calls, remvars, cfgvars, appvars>>

\* variant: end looks up a completed session as well as an active one
end_completed_mut(u) ==
    LET session_id == SelectSession(sessions, u, {ACTIVE, COMPLETED})
    IN  /\ \/ /\ session_id = 0
              /\ last' = Returned("end", u, "", 0)
              /\ UNCHANGED sessions
           \/ /\ session_id # 0
              /\ sessions' = CompleteSession(sessions, session_id, clock,
                                             sessions[session_id].start_time)
              /\ last' = Returned("end", u, "", session_id)
        /\ UNCHANGED <<clock, breaks, calls, remvars, cfgvars, appvars>>

end_work_session(u) ==
    LET session_id == SelectSession(sessions, u, {ACTIVE})
    IN  /\ \/ /\ session_id = 0
              /\ last' = Returned("end", u, "", 0)
              /\ UNCHANGED sessions
           \/ /\ session_id # 0
              /\ sessions' = CompleteSession(sessions, session_id, clock,
                                             sessions[session_id].start_time)
              /\ last' = Returned("end", u, "", session_id)
        /\ UNCHANGED <<clock, breaks, calls, remvars, cfgvars, appvars>>

\* variant: pause of a session that is already paused returns that session
pause_idempotent_mut(u, reason) ==
    LET session_id == SelectSession(sessions, u, {ACTIVE})
        paused == SelectSession(sessions, u, {PAUSED})
    IN  /\ \/ /\ session_id = 0
              /\ last' = Returned("pause", u, reason, paused)
              /\ UNCHANGED <<sessions, breaks>>
           \/ /\ session_id # 0
              /\ Len(sessions) + Len(breaks) < MaxRows
              /\ sessions' = SetStatus(sessions, session_id, PAUSED)
              /\ breaks' = InsertBreak(breaks, session_id, u, clock, reason)
              /\ last' = Returned("pause", u, reason, session_id)
        /\ UNCHANGED <<clock, calls, remvars, cfgvars, appvars>>

\* variant: pause looks up a completed session as well as an active one
pause_reopen_mut(u, reason) ==
    LET session_id == SelectSession(sessions, u, {ACTIVE, COMPLETED})
    IN  /\ \/ /\ session_id = 0
              /\ last' = Returned("pause", u, reason, 0)
              /\ UNCHANGED <<sessions, breaks>>
           \/ /\ session_id # 0
              /\ Len(sessions) + Len(breaks) < MaxRows
              /\ sessions' = SetStatus(sessions, session_id, PAUSED)
              /\ breaks' = InsertBreak(breaks, session_id, u, clock, reason)
              /\ last' = Returned("pause", u, reason, session_id)
        /\ UNCHANGED <<clock, calls, remvars, cfgvars, appvars>>

pause_work_session(u, reason) ==
    LET session_id == SelectSession(sessions, u, {ACTIVE})
    IN  /\ \/ /\ session_id = 0
              /\ last' = Returned("pause", u, reason, 0)
              /\ UNCHANGED <<sessions, breaks>>
           \/ /\ session_id # 0
              /\ Len(sessions) + Len(breaks) < MaxRows
              /\ sessions' = SetStatus(sessions, session_id, PAUSED)
              /\ breaks' = InsertBreak(breaks, session_id, u, clock, reason)
              /\ last' = Returned("pause", u, reason, session_id)
        /\ UNCHANGED <<clock, calls, remvars, cfgvars, appvars>>

\* variant: resume looks up any open session, not only a paused one
resume_any_mut(u) ==
    LET session_id == SelectSession(sessions, u, {ACTIVE, PAUSED})
    IN  /\ \/ /\ session_id = 0
              /\ last' = Returned("resume", u, "", 0)
              /\ UNCHANGED <<sessions, breaks>>
           \/ /\ session_id # 0
              /\ sessions' = SetStatus(sessions, session_id, ACTIVE)
              /\ breaks' = CloseBreaks(breaks, session_id, clock)
              /\ last' = Returned("resume", u, "", session_id)
        /\ UNCHANGED <<clock, calls, remvars, cfgvars, appvars>>

\* variant: resume looks up an active session instead of a paused one
resume_active_mut(u) ==
    LET session_id == SelectSession(sessions, u, {ACTIVE})
    IN  /\ \/ /\ session_id = 0
              /\ last' = Returned("resume", u, "", 0)
              /\ UNCHANGED <<sessions, breaks>>
           \/ /\ session_id # 0
              /\ sessions' = SetStatus(sessions, session_id, ACTIVE)
              /\ breaks' = CloseBreaks(breaks, session_id, clock)
              /\ last' = Returned("resume", u, "", session_id)
        /\ UNCHANGED <<clock, calls, remvars, cfgvars, appvars>>

resume_work_session(u) ==
    LET session_id == SelectSession(sessions, u, {PAUSED})
    IN  /\ \/ /\ session_id = 0
              /\ last' = Returned("resume", u, "", 0)
              /\ UNCHANGED <<sessions, breaks>>
           \/ /\ session_id # 0
              /\ sessions' = SetStatus(sessions, session_id, ACTIVE)
              /\ breaks' = CloseBreaks(breaks, session_id, clock)
              /\ last' = Returned("resume", u, "", session_id)
        /\ UNCHANGED <<clock, calls, remvars, cfgvars, appvars>>

\* the clock advances between calls; it never goes backwards
Tick ==
    /\ clock < MaxClock
    /\ clock' = clock + 1
    /\ last' = NoCall
    /\ UNCHANGED <<sessions, breaks, calls, remvars, cfgvars, appvars>>

Init ==
    /\ clock = 0
    /\ sessions = <<>>
    /\ breaks = <<>>
    /\ last = NoCall
    /\ calls = [p \in Procs |-> Idle]
    /\ settings = NoRows
    /\ sent_reminders = <<>>
    /\ tz = 0
    /\ file = NoFile
    /\ config = NotLoaded
    /\ app = NotStarted

Next ==
    \/ Tick
    \/ \E u \in Users, c \in Categories : start_work_session(u, c)
    \/ \E u \in Users : end_work_session(u)
    \/ \E u \in Users, r \in Reasons : pause_work_session(u, r)
    \/ \E u \in Users : resume_work_session(u)

Spec == Init /\ [][Next]_vars

(* ---- Database operations as overlapping calls ----                      *)
(* Each call opens its own connection.  Its SELECT and its write           *)
(* (statements up to commit) are separate awaits: another call's steps can *)
(* run between them.  A write becomes visible to the other connections at  *)
(* its commit, so the statements of one write are one step.  The calls     *)
(* overlap within one tick of the clock: which lookups and writes          *)
(* interleave does not depend on the timestamps they store.                *)

Begin(p, op, u, arg) ==
    /\ calls[p].pc = "idle"
    /\ calls' = [calls EXCEPT ![p] = [pc |-> "select", op |-> op, user_id |-> u,
                                      arg |-> arg, now |-> clock, sid |-> 0]]
    /\ UNCHANGED <<clock, sessions, breaks, last, remvars, cfgvars, appvars>>

\* now = datetime.datetime.now() on entry of each operation
call(p) ==
    \E u \in Users :
        \/ \E c \in Categories : Begin(p, "start", u, c)
        \/ Begin(p, "end", u, "")
        \/ \E r \in Reasons : Begin(p, "pause", u, r)
        \/ Begin(p, "resume", u, "")

\* the SELECT of an operation and the early return that follows it
Select(p, op, statuses, none) ==
    LET c == calls[p]
        found == SelectSession(sessions, c.user_id, statuses)
        proceed == IF op = "start" THEN found = 0 ELSE found # 0
    IN  /\ c.pc = "select"
        /\ c.op = op
        /\ \/ /\ ~proceed
              /\ last' = Returned(op, c.user_id, c.arg, none)
              /\ calls' = [calls EXCEPT ![p] = Idle]
           \/ /\ proceed
              /\ calls' = [calls EXCEPT ![p].pc = "write", ![p].sid = found]
              /\ UNCHANGED last
        /\ UNCHANGED <<clock, sessions, breaks, remvars, cfgvars, appvars>>

start_select(p) == Select(p, "start", {ACTIVE, PAUSED}, -1)
end_select(p) == Select(p, "end", {ACTIVE}, 0)
pause_select(p) == Select(p, "pause", {ACTIVE}, 0)
resume_select(p) == Select(p, "resume", {PAUSED}, 0)

start_insert(p) ==
    LET c == calls[p]
    IN  /\ c.pc = "write" /\ c.op = "start"
        /\ Len(sessions) + Len(breaks) < MaxRows
        /\ sessions' = InsertSession(sessions, c.user_id, c.now, c.arg)
        /\ last' = Returned("start", c.user_id, c.arg, Len(sessions) + 1)
        /\ calls' = [calls EXCEPT ![p] = Idle]
        /\ UNCHANGED <<clock, breaks, remvars, cfgvars, appvars>>

\* start_time is the value the SELECT returned; no statement changes the
\* start_time of a row, so it is read from the row here
end_update(p) ==
    LET c == calls[p]
    IN  /\ c.pc = "write" /\ c.op = "end"
        /\ sessions' = CompleteSession(sessions, c.sid, c.now,
                                       sessions[c.sid].start_time)
        /\ last' = Returned("end", c.user_id, c.arg, c.sid)
        /\ calls' = [calls EXCEPT ![p] = Idle]
        /\ UNCHANGED <<clock, breaks, remvars, cfgvars, appvars>>

pause_update(p) ==
    LET c == calls[p]
    IN  /\ c.pc = "write" /\ c.op = "pause"
        /\ Len(sessions) + Len(breaks) < MaxRows
        /\ sessions' = SetStatus(sessions, c.sid, PAUSED)
        /\ breaks' = InsertBreak(breaks, c.sid, c.user_id, c.now, c.arg)
        /\ last' = Returned("pause", c.user_id, c.arg, c.sid)
        /\ calls' = [calls EXCEPT ![p] = Idle]
        /\ UNCHANGED <<clock, remvars, cfgvars, appvars>>

resume_update(p) ==
    LET c == calls[p]
    IN  /\ c.pc = "write" /\ c.op = "resume"
        /\ sessions' = SetStatus(sessions, c.sid, ACTIVE)
        /\ breaks' = CloseBreaks(breaks, c.sid, c.now)
        /\ last' = Returned("resume", c.user_id, c.arg, c.sid)
        /\ calls' = [calls EXCEPT ![p] = Idle]
        /\ UNCHANGED <<clock, remvars, cfgvars, appvars>>

NextConc ==
    \/ \E p \in Procs : call(p)
    \/ \E p \in Procs : start_select(p)
    \/ \E p \in Procs : start_insert(p)
    \/ \E p \in Procs : end_select(p)
    \/ \E p \in Procs : end_update(p)
    \/ \E p \in Procs : pause_select(p)
    \/ \E p \in Procs : pause_update(p)
    \/ \E p \in Procs : resume_select(p)
    \/ \E p \in Procs : resume_update(p)

SpecConc == Init /\ [][NextConc]_vars

(* ---- Storage failures inside pause and resume ----                      *)
(* sqlite3 opens a transaction before the first UPDATE of a connection.    *)
(* A statement or the commit that raises leaves the `async with            *)
(* aiosqlite.connect(...)` block by the exception: the connection is       *)
(* closed with its transaction open, SQLite rolls it back, and the         *)
(* exception goes on to the caller, no except clause being in the way.     *)

\* what the caller gets when the operation raises
Raised == -2

\* the statement that raises: the first UPDATE (0 statements executed),
\* the second statement (1), or the commit (2)
FailurePoints == {0, 1, 2}

\* the tables as the connection sees them after the first k statements of
\* the write of pause
PauseStatements(ss, bs, sid, u, now, reason, k) ==
    [sessions |-> IF k >= 1 THEN SetStatus(ss, sid, PAUSED) ELSE ss,
     breaks |-> IF k >= 2 THEN InsertBreak(bs, sid, u, now, reason) ELSE bs]

\* the same for resume
ResumeStatements(ss, bs, sid, now, k) ==
    [sessions |-> IF k >= 1 THEN SetStatus(ss, sid, ACTIVE) ELSE ss,
     breaks |-> IF k >= 2 THEN CloseBreaks(bs, sid, now) ELSE bs]

\* variant: every statement is committed as it is executed
CloseUncommitted_autocommit_mut(committed, pending) == pending

\* the connection is closed without a commit: the tables are what they
\* were at the last commit
CloseUncommitted(committed, pending) == committed

\* pause_work_session raising on its statement k + 1
pause_fails(u, reason, k) ==
    LET session_id == SelectSession(sessions, u, {ACTIVE})
        seen == PauseStatements(sessions, breaks, session_id, u, clock, reason, k)
        kept == CloseUncommitted([sessions |-> sessions, breaks |-> breaks], seen)
    IN  /\ session_id # 0
        /\ sessions' = kept.sessions
        /\ breaks' = kept.breaks
        /\ last' = Returned("pause", u, reason, Raised)
        /\ UNCHANGED <<clock, calls, remvars, cfgvars, appvars>>

\* resume_work_session raising on its statement k + 1
resume_fails(u, k) ==
    LET session_id == SelectSession(sessions, u, {PAUSED})
        seen == ResumeStatements(sessions, breaks, session_id, clock, k)
        kept == CloseUncommitted([sessions |-> sessions, breaks |-> breaks], seen)
    IN  /\ session_id # 0
        /\ sessions' = kept.sessions
        /\ breaks' = kept.breaks
        /\ last' = Returned("resume", u, "", Raised)
        /\ UNCHANGED <<clock, calls, remvars, cfgvars, appvars>>

NextFail ==
    \/ Tick
    \/ \E u \in Users : start_work_session(u, "work")
    \/ \E u \in Users : end_work_session(u)
    \/ \E u \in Users : pause_work_session(u, "break")
    \/ \E u \in Users : resume_work_session(u)
    \/ \E u \in Users, k \in FailurePoints : pause_fails(u, "break", k)
    \/ \E u \in Users, k \in FailurePoints : resume_fails(u, k)

FailSpec == Init /\ [][NextFail]_vars

(* ---- Aggregation: Database.get_*_stats ----                             *)
(* A date is a day number; day 0 is Monday 1 January 2024, so that         *)
(* date.weekday() is the day number modulo 7.  The results are computed    *)
(* from the sessions and breaks tables as the code's loops compute them.   *)

\* ticks in one day: datetime.timedelta(days=1)
DayTicks == 86400 * Sub

\* datetime.datetime.combine(date, datetime.time.min)
DayMin(d) == d * DayTicks

\* datetime.datetime.combine(date, datetime.time.max): 23:59:59.999999, at
\* or after the last tick of the day
DayMax(d) == d * DayTicks + DayTicks - 1

\* date.weekday(): Monday is 0, Sunday is 6
weekday(d) == d % 7

\* the day a timestamp falls on
DateOf(t) == t \div DayTicks

\* days in the months January 2024 .. February 2025: day 1 falls on every
\* weekday and every month length 28..31 occurs
MonthLengths == <<31, 29, 31, 30, 31, 30, 31, 31, 30, 31, 30, 31, 31, 28>>

RECURSIVE MonthFirst(_)
\* datetime.date(year, month, 1)
MonthFirst(m) == IF m = 1 THEN 0 ELSE MonthFirst(m - 1) + MonthLengths[m - 1]

\* next_month - datetime.timedelta(days=1)
MonthLast(m) == MonthFirst(m) + MonthLengths[m] - 1

\* date.day
DayOfMonth(d) ==
    LET m == CHOOSE k \in DOMAIN MonthLengths : MonthFirst(k) <= d /\ d <= MonthLast(k)
    IN  d - MonthFirst(m) + 1

\* an empty dict
EmptyDict == [c \in {} |-> 0]

\* the definition of get_sessions_by_timeframe at database.py:258, which the
\* definition at database.py:428 replaces in the class: sessions that overlap
\* the window
get_sessions_by_timeframe_overlap(ss, u, lo, hi) ==
    SelectSeq(ss, LAMBDA s :
        /\ s.user_id = u
        /\ \/ (s.start_time >= lo /\ s.start_time <= hi)
           \/ (s.end_time # NULL /\ s.end_time >= lo /\ s.end_time <= hi)
           \/ (s.start_time <= lo /\ (s.end_time = NULL \/ s.end_time >= hi)))

\* variant: the window query selects by overlap, as the first definition
get_sessions_by_timeframe_spanning_mut(ss, u, lo, hi) ==
    get_sessions_by_timeframe_overlap(ss, u, lo, hi)

\* the definition in force (database.py:428): sessions of the user whose
\* start_time is in the window.  ORDER BY only fixes the order of the list,
\* which no aggregate depends on; the rows are kept in table order.
get_sessions_by_timeframe(ss, u, lo, hi) ==
    SelectSeq(ss, LAMBDA s :
        s.user_id = u /\ s.start_time >= lo /\ s.start_time <= hi)

\* SELECT * FROM breaks WHERE session_id = ?
get_session_breaks(bs, sid) == SelectSeq(bs, LAMBDA b : b.session_id = sid)

\* categories[category] count += 1, duration += duration, created on first use
AddCategory(cats, c, count, duration) ==
    IF c \in DOMAIN cats
    THEN [cats EXCEPT ![c] = [count |-> @.count + count,
                              duration |-> @.duration + duration]]
    ELSE cats @@ (c :> [count |-> count, duration |-> duration])

RECURSIVE BreakLoop(_, _)
\* for break_item in breaks: if end_time and duration: += duration
BreakLoop(brs, acc) ==
    IF brs = <<>> THEN acc
    ELSE LET b == Head(brs)
         IN  BreakLoop(Tail(brs),
                       IF b.end_time # NULL /\ b.duration # NULL /\ b.duration # 0
                       THEN acc + b.duration ELSE acc)

\* variant: open sessions are counted with the completed ones
SessionStep_open_mut(stats, s, bs) ==
    LET brs == get_session_breaks(bs, s.id)
        s1 == [stats EXCEPT
                  !.total_duration = @ + (IF s.duration = NULL THEN 0 ELSE s.duration),
                  !.completed_sessions = @ + 1,
                  !.categories = AddCategory(@, s.category, 1,
                                     IF s.duration = NULL THEN 0 ELSE s.duration)]
    IN  [s1 EXCEPT !.total_breaks = @ + Len(brs),
                   !.break_duration = BreakLoop(brs, @)]

\* the body of "for session in sessions" (database.py:470-496, 598-619)
SessionStep(stats, s, bs) ==
    LET brs == get_session_breaks(bs, s.id)
        s1 == IF s.status = COMPLETED
              THEN [stats EXCEPT
                       !.total_duration = @ + s.duration,
                       !.completed_sessions = @ + 1,
                       !.categories = AddCategory(@, s.category, 1, s.duration)]
              ELSE IF s.status \in {ACTIVE, PAUSED}
              THEN [stats EXCEPT !.active_sessions = @ + 1]
              ELSE stats
    IN  [s1 EXCEPT !.total_breaks = @ + Len(brs),
                   !.break_duration = BreakLoop(brs, @)]

RECURSIVE SessionLoop(_, _, _)
SessionLoop(sel, bs, stats) ==
    IF sel = <<>> THEN stats
    ELSE SessionLoop(Tail(sel), bs, SessionStep(stats, Head(sel), bs))

get_daily_stats(ss, bs, u, date) ==
    LET selected == get_sessions_by_timeframe(ss, u, DayMin(date), DayMax(date))
    IN  SessionLoop(selected, bs,
           [date |-> date, total_sessions |-> Len(selected),
            total_duration |-> 0, total_breaks |-> 0, break_duration |-> 0,
            categories |-> EmptyDict, completed_sessions |-> 0,
            active_sessions |-> 0])

RECURSIVE MergeCategories(_, _)
\* for category, data in day["categories"].items(): sum per key
MergeCategories(acc, cats) ==
    IF DOMAIN cats = {} THEN acc
    ELSE LET c == CHOOSE k \in DOMAIN cats : TRUE
             rest == [k \in DOMAIN cats \ {c} |-> cats[k]]
         IN  MergeCategories(AddCategory(acc, c, cats[c].count, cats[c].duration),
                             rest)

RECURSIVE DailyList(_, _, _, _, _)
\* while current_date <= end_date: daily_stats.append(get_daily_stats(...))
DailyList(ss, bs, u, current_date, end_date) ==
    IF current_date > end_date THEN <<>>
    ELSE <<get_daily_stats(ss, bs, u, current_date)>>
         \o DailyList(ss, bs, u, current_date + 1, end_date)

RECURSIVE WeekLoop(_, _)
\* for day in daily_stats: add the day's totals to the summary
WeekLoop(days, summary) ==
    IF days = <<>> THEN summary
    ELSE LET day == Head(days)
         IN  WeekLoop(Tail(days),
                [summary EXCEPT
                    !.total_sessions = @ + day.total_sessions,
                    !.total_duration = @ + day.total_duration,
                    !.total_breaks = @ + day.total_breaks,
                    !.break_duration = @ + day.break_duration,
                    !.categories = MergeCategories(@, day.categories)])

\* variant: the last day of the week is left out of the totals
get_weekly_stats_short_mut(ss, bs, u, date) ==
    LET start_date == date - weekday(date)
        daily_stats == DailyList(ss, bs, u, start_date, start_date + 6)
    IN  WeekLoop(SubSeq(daily_stats, 1, 6),
           [start_date |-> start_date, end_date |-> start_date + 6,
            total_sessions |-> 0, total_duration |-> 0, total_breaks |-> 0,
            break_duration |-> 0, categories |-> EmptyDict,
            daily_stats |-> daily_stats])

get_weekly_stats(ss, bs, u, date) ==
    LET start_date == date - weekday(date)
        end_date == start_date + 6
        daily_stats == DailyList(ss, bs, u, start_date, end_date)
    IN  WeekLoop(daily_stats,
           [start_date |-> start_date, end_date |-> end_date,
            total_sessions |-> 0, total_duration |-> 0, total_breaks |-> 0,
            break_duration |-> 0, categories |-> EmptyDict,
            daily_stats |-> daily_stats])

\* reports.get_weekly_stats: the dates of its days_stats list.  A date
\* given by the caller is used as the first day as it is; only a missing
\* date is replaced by the Monday of today's week.
reports_week_dates(week_start, today) ==
    LET first == IF week_start = NULL THEN today - weekday(today) ELSE week_start
    IN  [k \in 1..7 |-> first + k - 1]

RECURSIVE reports_total_seconds(_, _)
\* reports.get_daily_stats: for session in sessions:
\* duration = session.get("duration", 0); total_seconds += duration.
\* The key is in every row, so an open session gives None, and int + None
\* raises TypeError.
reports_total_seconds(sel, total_seconds) ==
    IF sel = <<>> THEN [raised |-> FALSE, total_seconds |-> total_seconds]
    ELSE IF Head(sel).duration = NULL
    THEN [raised |-> TRUE, total_seconds |-> total_seconds]
    ELSE reports_total_seconds(Tail(sel), total_seconds + Head(sel).duration)

\* reports.get_daily_stats(user_id, date) (reports.py:12-76)
reports_get_daily_stats(ss, u, date) ==
    LET selected == get_sessions_by_timeframe(ss, u, DayMin(date), DayMax(date))
        loop == reports_total_seconds(selected, 0)
    IN  IF selected = <<>>
        THEN [raised |-> FALSE, date |-> date, total_work_seconds |-> 0,
              sessions_count |-> 0]
        ELSE [raised |-> loop.raised, date |-> date,
              total_work_seconds |-> loop.total_seconds,
              sessions_count |-> Len(selected)]

RECURSIVE WeekAnchors(_, _)
\* the dates at which get_monthly_stats calls get_weekly_stats: the first
\* of the month and the Mondays after it (database.py:570-578)
WeekAnchors(current_date, end_date) ==
    IF current_date > end_date THEN <<>>
    ELSE IF weekday(current_date) = 0 \/ DayOfMonth(current_date) = 1
    THEN <<current_date>> \o WeekAnchors(current_date + 7, end_date)
    ELSE WeekAnchors(current_date + (7 - weekday(current_date)), end_date)

\* the weekly_stats list of get_monthly_stats (database.py:566-578)
monthly_weekly_stats(ss, bs, u, month) ==
    LET anchors == WeekAnchors(MonthFirst(month), MonthLast(month))
    IN  [k \in DOMAIN anchors |-> get_weekly_stats(ss, bs, u, anchors[k])]

\* variant: the totals of the month are the sums of its weeks
monthly_totals_weeks_mut(ss, bs, u, month) ==
    LET w == WeekLoop(monthly_weekly_stats(ss, bs, u, month),
                 [total_sessions |-> 0, total_duration |-> 0, total_breaks |-> 0,
                  break_duration |-> 0, categories |-> EmptyDict])
    IN  [month |-> month, total_sessions |-> w.total_sessions,
         total_duration |-> w.total_duration, total_breaks |-> w.total_breaks,
         break_duration |-> w.break_duration, categories |-> w.categories]

\* the totals of get_monthly_stats (database.py:561-564, 580-619), computed
\* from the sessions of the month window
monthly_totals(ss, bs, u, month) ==
    LET selected == get_sessions_by_timeframe(ss, u, DayMin(MonthFirst(month)),
                                              DayMax(MonthLast(month)))
        summary == SessionLoop(selected, bs,
                      [total_sessions |-> Len(selected), total_duration |-> 0,
                       total_breaks |-> 0, break_duration |-> 0,
                       categories |-> EmptyDict, completed_sessions |-> 0,
                       active_sessions |-> 0])
    IN  [month |-> month, total_sessions |-> summary.total_sessions,
         total_duration |-> summary.total_duration,
         total_breaks |-> summary.total_breaks,
         break_duration |-> summary.break_duration,
         categories |-> summary.categories]

get_monthly_stats(ss, bs, u, month) ==
    monthly_totals(ss, bs, u, month)
        @@ [weekly_stats |-> monthly_weekly_stats(ss, bs, u, month)]

(* ---- The store over several days ----                                   *)
(* The operations of the session state machine, called at a few instants   *)
(* of a calendar stretch: Wednesday 31 January 09:00:00 and 17:00:00.5,    *)
(* the last tick of Sunday 4 February, and Monday 5 February 00:00:00.     *)

\* a timestamp: day number, time of day, and ticks within the second
At(day, h, m, sec, frac) == (((day * 24 + h) * 60 + m) * 60 + sec) * Sub + frac

Instants ==
    << At(30, 9, 0, 0, 0), At(30, 17, 0, 0, 1),
       At(34, 23, 59, 59, Sub - 1), At(35, 0, 0, 0, 0) >>

\* the dates, weeks (by one of their dates) and months reports are asked for
QueryDates == {29, 30, 31, 34, 35}
QueryWeeks == {31, 35}
QueryMonths == {1, 2}

\* time passes to the next instant
Advance ==
    /\ \E k \in DOMAIN Instants :
          /\ Instants[k] > clock
          /\ \A j \in DOMAIN Instants : Instants[j] > clock => Instants[j] >= Instants[k]
          /\ clock' = Instants[k]
    /\ last' = NoCall
    /\ UNCHANGED <<sessions, breaks, calls, remvars, cfgvars, appvars>>

\* a report is asked for by user u (bot.py:1004-1025, 771, 871): the
\* get_*_stats functions read the tables and change no row
stats_period_callback(u) ==
    /\ last' = Returned("stats", u, "", 0)
    /\ UNCHANGED <<clock, sessions, breaks, calls, remvars, cfgvars, appvars>>

InitStats ==
    /\ clock = Instants[1]
    /\ sessions = <<>>
    /\ breaks = <<>>
    /\ last = NoCall
    /\ calls = [p \in Procs |-> Idle]
    /\ settings = NoRows
    /\ sent_reminders = <<>>
    /\ tz = 0
    /\ file = NoFile
    /\ config = NotLoaded
    /\ app = NotStarted

NextStats ==
    \/ Advance
    \/ \E u \in Users, c \in Categories : start_work_session(u, c)
    \/ \E u \in Users : end_work_session(u)
    \/ \E u \in Users : pause_work_session(u, "break")
    \/ \E u \in Users : resume_work_session(u)
    \/ \E u \in Users : stats_period_callback(u)

StatsSpec == InitStats /\ [][NextStats]_vars

(* ---- Reminders: settings, the log of sent reminders, the evaluator ---- *)
(* datetime.datetime.now() is the host's local time; the sent_at column of *)
(* sent_reminders is filled by SQLite's CURRENT_TIMESTAMP, which is UTC in *)
(* whole seconds.  The evaluator subtracts the one from the other.  The    *)
(* host's UTC offset tz is fixed for a run and is any of TzOffsets.        *)

\* a number of minutes, in ticks
Minutes(m) == m * 60 * Sub

\* UTC offsets of the host: New York (winter), UTC, Moscow
TzOffsets == {Minutes(-300), Minutes(0), Minutes(180)}

\* the defaults of get_reminder_settings, equal to the column defaults of
\* the table reminder_settings
DefaultSettings ==
    [work_reminder_enabled |-> 1, work_reminder_minutes |-> 60,
     break_reminder_enabled |-> 1, break_reminder_minutes |-> 15,
     long_break_reminder_enabled |-> 1, long_break_reminder_minutes |-> 120,
     daily_goal_enabled |-> 0, daily_goal_minutes |-> 480]

get_reminder_settings(st, u) ==
    IF u \in DOMAIN st THEN st[u] ELSE DefaultSettings

\* writes the columns given and resets the others to the defaults
SetColumns_replace_mut(old, kw) ==
    [f \in DOMAIN DefaultSettings |->
        IF f \in DOMAIN kw THEN kw[f] ELSE DefaultSettings[f]]

\* the row after SET key = value for the keys given: the other columns keep
\* old's values
SetColumns(old, kw) ==
    [f \in DOMAIN DefaultSettings |-> IF f \in DOMAIN kw THEN kw[f] ELSE old[f]]

\* UPDATE of the user's row if there is one, else INSERT of the columns
\* given, the others taking the column defaults.  The keys go into the SQL
\* text as column names: a key that is no column of the table makes the
\* statement fail (sqlite3.OperationalError) and nothing is written.
update_reminder_settings(u, kw) ==
    IF DOMAIN kw \subseteq DOMAIN DefaultSettings
    THEN /\ settings' = IF u \in DOMAIN settings
                        THEN [settings EXCEPT ![u] = SetColumns(@, kw)]
                        ELSE settings @@ (u :> SetColumns(DefaultSettings, kw))
         /\ last' = Returned("settings", u, "", [ok |-> TRUE, kw |-> kw])
         /\ UNCHANGED <<clock, sessions, breaks, calls, sent_reminders, tz, cfgvars, appvars>>
    ELSE /\ last' = Returned("settings", u, "", [ok |-> FALSE, kw |-> kw])
         /\ UNCHANGED <<clock, sessions, breaks, calls, remvars, cfgvars, appvars>>

\* reminders_callback: a toggle button reads the settings and writes the
\* opposite of the flag
reminders_callback(u, flag) ==
    update_reminder_settings(u,
        flag :> (IF get_reminder_settings(settings, u)[flag] = 0 THEN 1 ELSE 0))

\* _process_reminder_time_input: a number of minutes within 1..10080
process_reminder_time_input(u, time_type, minutes) ==
    /\ minutes >= 1 /\ minutes <= 10080
    /\ update_reminder_settings(u, time_type :> minutes)

\* CURRENT_TIMESTAMP when the local time is now: UTC, cut to the second
CurrentTimestamp(now, tzv) == ((now - tzv) \div Sub) * Sub

\* INSERT INTO sent_reminders (user_id, reminder_type, session_id, message_id)
log_sent_reminder(log, u, kind, sid, now, tzv) ==
    Append(log, [user_id |-> u, reminder_type |-> kind, session_id |-> sid,
                 sent_at |-> CurrentTimestamp(now, tzv)])

\* datetime.datetime.min: further in the past than any interval that can be
\* configured (10080 minutes)
DatetimeMin == 0 - 400 * DayTicks

\* ignores the kind of the rows
get_last_reminder_anykind_mut(log, u, kind) ==
    LET rows == {i \in DOMAIN log : log[i].user_id = u}
    IN  IF rows = {} THEN DatetimeMin
        ELSE CHOOSE t \in {log[i].sent_at : i \in rows} :
                \A i \in rows : log[i].sent_at <= t

\* SELECT sent_at ... ORDER BY sent_at DESC LIMIT 1, read as a datetime
get_last_reminder_time(log, u, kind) ==
    LET rows == {i \in DOMAIN log :
                    log[i].user_id = u /\ log[i].reminder_type = kind}
    IN  IF rows = {} THEN DatetimeMin
        ELSE CHOOSE t \in {log[i].sent_at : i \in rows} :
                \A i \in rows : log[i].sent_at <= t

\* (a - b).total_seconds() / 60 >= minutes
MinutesSince(a, b, minutes) == a - b >= Minutes(minutes)

\* the inner "if minutes_since_last >= ...: send, log" of one reminder kind
SendIfDue(acc, due, u, kind, minutes, sid, now, tzv) ==
    IF due /\ MinutesSince(now, get_last_reminder_time(acc.log, u, kind), minutes)
    THEN [log |-> log_sent_reminder(acc.log, u, kind, sid, now, tzv),
          fired |-> acc.fired \cup {<<u, kind>>}]
    ELSE acc

\* any(b.start_time > current_time - timedelta(minutes=...) for b in breaks)
has_recent_break(bs, sid, now, minutes) ==
    \E b \in DOMAIN bs :
        bs[b].session_id = sid /\ bs[b].start_time > now - Minutes(minutes)

RECURSIVE DurationSum(_)
\* sum(s['duration'] for s in daily_sessions if s['duration'])
DurationSum(sel) ==
    IF sel = <<>> THEN 0
    ELSE (IF Head(sel).duration # NULL THEN Head(sel).duration ELSE 0)
         + DurationSum(Tail(sel))

\* the body of "for user_id in users" of check_and_send_reminders
CheckUser(acc, u, ss, bs, st, now, tzv) ==
    LET s == get_reminder_settings(st, u)
        sid == SelectSession(ss, u, {ACTIVE, PAUSED})
        start == IF sid = 0 THEN 0 ELSE ss[sid].start_time
        a1 == IF sid = 0 THEN acc
              ELSE SendIfDue(acc,
                      /\ s.work_reminder_enabled # 0
                      /\ MinutesSince(now, start, s.work_reminder_minutes),
                      u, "work_reminder", s.work_reminder_minutes, sid, now, tzv)
        a2 == IF sid = 0 THEN a1
              ELSE SendIfDue(a1,
                      /\ s.break_reminder_enabled # 0
                      /\ MinutesSince(now, start, s.break_reminder_minutes)
                      /\ ~has_recent_break(bs, sid, now, s.break_reminder_minutes),
                      u, "break_reminder", s.break_reminder_minutes, sid, now, tzv)
        a3 == IF sid = 0 THEN a2
              ELSE SendIfDue(a2,
                      /\ s.long_break_reminder_enabled # 0
                      /\ MinutesSince(now, start, s.long_break_reminder_minutes),
                      u, "long_break_reminder", s.long_break_reminder_minutes,
                      sid, now, tzv)
        daily_duration ==
            DurationSum(get_sessions_by_timeframe(ss, u, DayMin(DateOf(now)),
                                                  DayMax(DateOf(now))))
    IN  SendIfDue(a3,
           /\ s.daily_goal_enabled # 0
           /\ daily_duration >= s.daily_goal_minutes * 60,
           u, "daily_goal", 60, NULL, now, tzv)

RECURSIVE CheckUsers(_, _, _, _, _, _, _)
\* for user_id in users: the users in the order of the table
CheckUsers(acc, us, ss, bs, st, now, tzv) ==
    IF us = {} THEN acc
    ELSE LET u == Min(us)
         IN  CheckUsers(CheckUser(acc, u, ss, bs, st, now, tzv), us \ {u},
                        ss, bs, st, now, tzv)

\* one evaluation tick.  A send that fails is caught inside send_*_reminder,
\* so the row is logged whether or not the message went out (sent).
check_and_send_reminders(sent) ==
    LET res == CheckUsers([log |-> sent_reminders, fired |-> {}], Users,
                          sessions, breaks, settings, clock, tz)
    IN  /\ Len(res.log) <= MaxSent
        /\ sent_reminders' = res.log
        /\ last' = Returned("check", 0, "",
                      [fired |-> res.fired,
                       delivered |-> IF sent THEN res.fired ELSE {}])
        /\ UNCHANGED <<clock, sessions, breaks, calls, settings, tz, cfgvars, appvars>>

\* the instants at which calls and ticks happen: 09:00 of 31 January and
\* 65, 66 and 126 minutes later
RemInstants ==
    << At(30, 9, 0, 0, 0), At(30, 9, 0, 0, 0) + Minutes(65),
       At(30, 9, 0, 0, 0) + Minutes(66), At(30, 9, 0, 0, 0) + Minutes(126) >>

\* time passes to the next of the instants
PassOver(instants) ==
    /\ \E k \in DOMAIN instants :
          /\ instants[k] > clock
          /\ \A j \in DOMAIN instants :
                instants[j] > clock => instants[j] >= instants[k]
          /\ clock' = instants[k]
    /\ last' = NoCall
    /\ UNCHANGED <<sessions, breaks, calls, remvars, cfgvars, appvars>>

Pass == PassOver(RemInstants)

InitRem ==
    /\ clock = RemInstants[1]
    /\ sessions = <<>>
    /\ breaks = <<>>
    /\ last = NoCall
    /\ calls = [p \in Procs |-> Idle]
    /\ settings = NoRows
    /\ sent_reminders = <<>>
    /\ tz \in TzOffsets
    /\ file = NoFile
    /\ config = NotLoaded
    /\ app = NotStarted

\* the users who call the bot in RemSpec; the evaluator loops over Users
RemUsers == {1}

NextRem ==
    \/ Pass
    \/ \E u \in RemUsers : start_work_session(u, "work")
    \/ \E u \in RemUsers : end_work_session(u)
    \/ \E u \in RemUsers : pause_work_session(u, "break")
    \/ \E u \in RemUsers : reminders_callback(u, "work_reminder_enabled")
    \/ \E u \in RemUsers : process_reminder_time_input(u, "work_reminder_minutes", 1)
    \/ \E sent \in BOOLEAN : check_and_send_reminders(sent)

RemSpec == InitRem /\ [][NextRem]_vars

(* ---- The daily goal ----                                                *)
(* A working day: 09:00 and 17:05 of 31 January (485 minutes later), 17:06, *)
(* 18:06, and 09:00 of the next day.  The button "set_daily_goal" stores   *)
(* the time type "daily_goal", which is no column of reminder_settings, so *)
(* the goal stays at the 480 minutes of the defaults.                      *)

GoalInstants ==
    << At(30, 9, 0, 0, 0), At(30, 17, 5, 0, 0), At(30, 17, 6, 0, 0),
       At(30, 18, 6, 0, 0), At(31, 9, 0, 0, 0) >>

PassGoal == PassOver(GoalInstants)

InitGoal ==
    /\ clock = GoalInstants[1]
    /\ sessions = <<>>
    /\ breaks = <<>>
    /\ last = NoCall
    /\ calls = [p \in Procs |-> Idle]
    /\ settings = NoRows
    /\ sent_reminders = <<>>
    /\ tz \in TzOffsets
    /\ file = NoFile
    /\ config = NotLoaded
    /\ app = NotStarted

NextGoal ==
    \/ PassGoal
    \/ \E u \in RemUsers : start_work_session(u, "work")
    \/ \E u \in RemUsers : end_work_session(u)
    \/ \E u \in RemUsers : reminders_callback(u, "daily_goal_enabled")
    \/ \E u \in RemUsers : process_reminder_time_input(u, "daily_goal", 60)
    \/ \E sent \in BOOLEAN : check_and_send_reminders(sent)

GoalSpec == InitGoal /\ [][NextGoal]_vars

(* ---- The evaluator as overlapping ticks ----                            *)
(* The work block of check_and_send_reminders for one user reads the last  *)
(* firing, sends the message and appends the log row in three awaited      *)
(* calls, the reads and the append each on a connection of their own; no   *)
(* lock or transaction spans them.  Two evaluators (a second scheduler     *)
(* instance, or a tick started while another is still sending) interleave  *)
(* at these awaits.  The host is on UTC.                                   *)

\* settings, active session, the two tests of the work block
work_select(p, u) ==
    LET s == get_reminder_settings(settings, u)
        sid == SelectSession(sessions, u, {ACTIVE, PAUSED})
        due == /\ sid # 0
               /\ s.work_reminder_enabled # 0
               /\ MinutesSince(clock, sessions[sid].start_time, s.work_reminder_minutes)
               /\ MinutesSince(clock,
                     get_last_reminder_time(sent_reminders, u, "work_reminder"),
                     s.work_reminder_minutes)
    IN  /\ calls[p].pc = "idle"
        /\ IF due
           THEN /\ calls' = [calls EXCEPT ![p] =
                      [pc |-> "due", op |-> "check", user_id |-> u,
                       arg |-> "work_reminder", now |-> clock, sid |-> sid]]
                /\ UNCHANGED last
           ELSE /\ last' = Returned("check", u, "work_reminder", 0)
                /\ UNCHANGED calls
        /\ UNCHANGED <<clock, sessions, breaks, remvars, cfgvars, appvars>>

\* await send_work_reminder(bot, user_id, active_session)
work_send(p) ==
    /\ calls[p].pc = "due"
    /\ calls' = [calls EXCEPT ![p].pc = "sent"]
    /\ UNCHANGED <<clock, sessions, breaks, last, remvars, cfgvars, appvars>>

\* await Database.log_sent_reminder(user_id, 'work_reminder', session id)
work_log(p) ==
    /\ calls[p].pc = "sent"
    /\ Len(sent_reminders) < MaxSent
    /\ sent_reminders' = log_sent_reminder(sent_reminders, calls[p].user_id,
                            calls[p].arg, calls[p].sid, clock, tz)
    /\ calls' = [calls EXCEPT ![p] = Idle]
    /\ last' = Returned("check", calls[p].user_id, calls[p].arg, 1)
    /\ UNCHANGED <<clock, sessions, breaks, settings, tz, cfgvars, appvars>>

InitRemConc ==
    /\ clock = RemInstants[1]
    /\ sessions = <<>>
    /\ breaks = <<>>
    /\ last = NoCall
    /\ calls = [p \in Procs |-> Idle]
    /\ settings = NoRows
    /\ sent_reminders = <<>>
    /\ tz = 0
    /\ file = NoFile
    /\ config = NotLoaded
    /\ app = NotStarted

NextRemConc ==
    \/ Pass
    \/ \E u \in RemUsers : start_work_session(u, "work")
    \/ \E u \in RemUsers : end_work_session(u)
    \/ \E p \in Procs : \E u \in Users : work_select(p, u)
    \/ \E p \in Procs : work_send(p)
    \/ \E p \in Procs : work_log(p)

RemConcSpec == InitRemConc /\ [][NextRemConc]_vars

(* ---- The settings alone ----                                            *)
(* The toggle buttons of reminders_callback, the minutes typed in after a  *)
(* "set_..." button, and update_reminder_settings called with several      *)
(* columns at once.                                                        *)

SettingFlags ==
    {"work_reminder_enabled", "break_reminder_enabled",
     "long_break_reminder_enabled", "daily_goal_enabled"}

\* the time types that reminders_callback derives from the buttons
\* set_work_time and set_daily_goal
TimeTypes == {"work_reminder_minutes", "daily_goal"}

\* minutes typed in: below the range, within it, above it
TypedMinutes == {0, 45, 10081}

\* keyword arguments with more than one column
UpdateSets ==
    {[work_reminder_enabled |-> 0, daily_goal_minutes |-> 30],
     [daily_goal_enabled |-> 1, daily_goal_minutes |-> 480, break_reminder_minutes |-> 15]}

InitSettings ==
    /\ clock = 0
    /\ sessions = <<>>
    /\ breaks = <<>>
    /\ last = NoCall
    /\ calls = [p \in Procs |-> Idle]
    /\ settings = NoRows
    /\ sent_reminders = <<>>
    /\ tz = 0
    /\ file = NoFile
    /\ config = NotLoaded
    /\ app = NotStarted

NextSettings ==
    \/ \E u \in Users : \E flag \in SettingFlags : reminders_callback(u, flag)
    \/ \E u \in Users : \E time_type \in TimeTypes : \E minutes \in TypedMinutes :
          process_reminder_time_input(u, time_type, minutes)
    \/ \E u \in Users : \E kw \in UpdateSets : update_reminder_settings(u, kw)

SettingsSpec == InitSettings /\ [][NextSettings]_vars

(* ---- Two users side by side ----                                        *)
(* Both users run sessions, change their settings and are evaluated by the *)
(* scheduler, at 09:00 and 65 minutes later.  The host is on UTC.          *)

IsoInstants == SubSeq(RemInstants, 1, 2)

PassIso == PassOver(IsoInstants)

InitIso ==
    /\ clock = IsoInstants[1]
    /\ sessions = <<>>
    /\ breaks = <<>>
    /\ last = NoCall
    /\ calls = [p \in Procs |-> Idle]
    /\ settings = NoRows
    /\ sent_reminders = <<>>
    /\ tz = 0
    /\ file = NoFile
    /\ config = NotLoaded
    /\ app = NotStarted

NextIso ==
    \/ PassIso
    \/ \E u \in Users : start_work_session(u, "work")
    \/ \E u \in Users : end_work_session(u)
    \/ \E u \in Users : pause_work_session(u, "break")
    \/ \E u \in Users : resume_work_session(u)
    \/ \E u \in Users : reminders_callback(u, "work_reminder_enabled")
    \/ check_and_send_reminders(TRUE)

IsoSpec == InitIso /\ [][NextIso]_vars

(* ---- A tick in which the evaluation of one user raises ----             *)
(* The body of the loop over the users is inside try/except Exception      *)
(* (bot.py:1564, 1633): an exception raised by an await of the body ends   *)
(* that user's iteration, is logged, and the loop goes on.                 *)

\* the awaits of the body that raise: the first one (get_reminder_settings,
\* nothing evaluated yet) or get_session_breaks (the work block is done)
RaisePoints == {"get_reminder_settings", "get_session_breaks"}

\* the settings with every block after the work reminder switched off for u
WorkBlockOnly(st, u) ==
    (u :> [get_reminder_settings(st, u) EXCEPT
              !.break_reminder_enabled = 0, !.long_break_reminder_enabled = 0,
              !.daily_goal_enabled = 0]) @@ st

\* the part of the body that has run for u when `at` raises
CheckUserUntil(acc, u, ss, bs, st, now, tzv, at) ==
    IF at = "get_reminder_settings" THEN acc
    ELSE CheckUser(acc, u, ss, bs, WorkBlockOnly(st, u), now, tzv)

\* variant: no try/except around the body, the exception ends the loop
CheckUsersRaising_abort_mut(r, us, ss, bs, st, now, tzv, f, at) ==
    IF f \notin us
    THEN [r EXCEPT !.acc = CheckUsers(r.acc, us, ss, bs, st, now, tzv)]
    ELSE LET before == CheckUsers(r.acc, {u \in us : u < f}, ss, bs, st, now, tzv)
         IN  [acc |-> CheckUserUntil(before, f, ss, bs, st, now, tzv, at),
              errors |-> r.errors \cup {f}, raised |-> TRUE]

RECURSIVE CheckUsersRaising(_, _, _, _, _, _, _, _, _)
\* for user_id in users, the body raising for user f at `at`:
\* except Exception: logger.error(...), and on to the next user
CheckUsersRaising(r, us, ss, bs, st, now, tzv, f, at) ==
    IF us = {} THEN r
    ELSE LET u == Min(us)
             r1 == IF u = f
                   THEN [r EXCEPT
                           !.acc = CheckUserUntil(r.acc, u, ss, bs, st, now, tzv, at),
                           !.errors = @ \cup {u}]
                   ELSE [r EXCEPT !.acc = CheckUser(r.acc, u, ss, bs, st, now, tzv)]
         IN  CheckUsersRaising(r1, us \ {u}, ss, bs, st, now, tzv, f, at)

\* one evaluation tick in which the body raises for user f
check_and_send_reminders_raising(f, at) ==
    LET res == CheckUsersRaising(
                  [acc |-> [log |-> sent_reminders, fired |-> {}],
                   errors |-> {}, raised |-> FALSE],
                  Users, sessions, breaks, settings, clock, tz, f, at)
    IN  /\ Len(res.acc.log) <= MaxSent
        /\ sent_reminders' = res.acc.log
        /\ last' = Returned("check", f, "error",
                      [fired |-> res.acc.fired, delivered |-> res.acc.fired,
                       errors |-> res.errors, raised |-> res.raised])
        /\ UNCHANGED <<clock, sessions, breaks, calls, settings, tz, cfgvars, appvars>>

NextTick ==
    \/ Pass
    \/ \E u \in Users : start_work_session(u, "work")
    \/ \E u \in RemUsers : end_work_session(u)
    \/ check_and_send_reminders(TRUE)
    \/ \E f \in Users, at \in RaisePoints : check_and_send_reminders_raising(f, at)

TickSpec == InitRemConc /\ [][NextTick]_vars

(* ---- Category configuration (src/config.py) ----                        *)
(* categories.json is read by load_categories into two module globals.     *)
(* The file is described by what the loader can observe of it: whether it  *)
(* exists, whether it can be opened, its modification time, and what       *)
(* json.load makes of its text.  Writing the file moves its modification   *)
(* time forward; chmod leaves it as it is.                                 *)

MaxMtime == 3

\* the default lists of the code (Russian in the source, transliterated)
DefaultWork ==
    <<"Razrabotka", "Soveshchaniya", "Dokumentatsiya", "Obuchenie", "Drugoe">>

DefaultNote ==
    <<"Obshchee", "Ideya", "Zadacha", "Problema", "Vstrecha", "Lichnoe">>

\* data.get(key, []): the key is absent, or holds a string, an empty list
\* or a list with an entry
AbsentKey == [kind |-> "absent", items |-> <<>>]

WorkFields ==
    {AbsentKey, [kind |-> "string", items |-> <<>>],
     [kind |-> "list", items |-> <<>>], [kind |-> "list", items |-> <<"Dev">>]}

NoteFields ==
    {AbsentKey, [kind |-> "string", items |-> <<>>],
     [kind |-> "list", items |-> <<>>], [kind |-> "list", items |-> <<"Idea">>]}

\* the text of the file: no JSON, JSON that is no object, or an object
Contents ==
    {[json |-> j, work |-> AbsentKey, note |-> AbsentKey] :
        j \in {"malformed", "notdict"}}
    \cup {[json |-> "dict", work |-> w, note |-> n] :
             w \in WorkFields, n \in NoteFields}

\* default_data, as json.dump writes it
DefaultData ==
    [json |-> "dict", work |-> [kind |-> "list", items |-> DefaultWork],
     note |-> [kind |-> "list", items |-> DefaultNote]]

Defaults(c) ==
    [c EXCEPT !._work_categories = DefaultWork, !._note_categories = DefaultNote]

\* isinstance(cats, list) and len(cats) > 0, else the default list
Validated(field, default) ==
    IF field.kind = "list" /\ Len(field.items) > 0 THEN field.items ELSE default

\* load_categories: the file, the globals and the kind of result after it.
\* os.path.getmtime needs no read permission; the open for writing of a
\* missing file can fail (can_create).
Load(f, c, can_create) ==
    IF /\ f.exists
       /\ f.mtime = c._last_file_mtime
       /\ c._work_categories # <<>>
       /\ c._note_categories # <<>>
    THEN [file |-> f, config |-> c, result |-> "file_unchanged"]
    ELSE LET c1 == IF f.exists THEN [c EXCEPT !._last_file_mtime = f.mtime] ELSE c
         IN  IF f.exists
             THEN IF ~f.readable
                  THEN [file |-> f, config |-> Defaults(c1), result |-> "error"]
                  ELSE IF f.content.json = "malformed"
                  THEN [file |-> f, config |-> Defaults(c1), result |-> "json_error"]
                  ELSE IF f.content.json = "notdict"
                  THEN [file |-> f, config |-> Defaults(c1), result |-> "error"]
                  ELSE [file |-> f,
                        config |-> [c1 EXCEPT
                           !._work_categories = Validated(f.content.work, DefaultWork),
                           !._note_categories = Validated(f.content.note, DefaultNote)],
                        result |-> "loaded_from_file"]
             ELSE IF can_create /\ f.mtime < MaxMtime
                  THEN [file |-> [exists |-> TRUE, readable |-> TRUE,
                                  mtime |-> f.mtime + 1, content |-> DefaultData],
                        config |-> Defaults(c1), result |-> "created_default"]
                  ELSE [file |-> f, config |-> Defaults(c1), result |-> "error"]

sessvars == <<clock, sessions, breaks, calls, remvars, appvars>>

\* load_categories() and reload_categories(), which only calls it
load_categories(can_create) ==
    LET res == Load(file, config, can_create)
    IN  /\ file' = res.file
        /\ config' = res.config
        /\ last' = Returned("load", 0, res.result, 0)
        /\ UNCHANGED sessvars

\* get_work_categories: loads if the list is empty, returns a copy
get_work_categories(can_create) ==
    LET res == IF config._work_categories = <<>>
               THEN Load(file, config, can_create)
               ELSE [file |-> file, config |-> config, result |-> "cached"]
    IN  /\ file' = res.file
        /\ config' = res.config
        /\ last' = Returned("get_work", 0, res.result, res.config._work_categories)
        /\ UNCHANGED sessvars

get_note_categories(can_create) ==
    LET res == IF config._note_categories = <<>>
               THEN Load(file, config, can_create)
               ELSE [file |-> file, config |-> config, result |-> "cached"]
    IN  /\ file' = res.file
        /\ config' = res.config
        /\ last' = Returned("get_note", 0, res.result, res.config._note_categories)
        /\ UNCHANGED sessvars

\* somebody writes the file
WriteFile(content) ==
    /\ file.mtime < MaxMtime
    /\ file' = [exists |-> TRUE, readable |-> file.readable,
                mtime |-> file.mtime + 1, content |-> content]
    /\ last' = NoCall
    /\ UNCHANGED <<config, sessvars>>

\* somebody removes the file
RemoveFile ==
    /\ file.exists
    /\ file' = [file EXCEPT !.exists = FALSE, !.readable = TRUE]
    /\ last' = NoCall
    /\ UNCHANGED <<config, sessvars>>

\* somebody takes away or gives back the permission to read the file
Chmod ==
    /\ file.exists
    /\ file' = [file EXCEPT !.readable = ~file.readable]
    /\ last' = NoCall
    /\ UNCHANGED <<config, sessvars>>

InitCat ==
    /\ clock = 0
    /\ sessions = <<>>
    /\ breaks = <<>>
    /\ last = NoCall
    /\ calls = [p \in Procs |-> Idle]
    /\ settings = NoRows
    /\ sent_reminders = <<>>
    /\ tz = 0
    /\ config = NotLoaded
    /\ app = NotStarted
    /\ \/ file = NoFile
       \/ \E content \in Contents, r \in BOOLEAN :
             file = [exists |-> TRUE, readable |-> r, mtime |-> 1,
                     content |-> content]

NextCat ==
    \/ \E can_create \in BOOLEAN : load_categories(can_create)
    \/ \E can_create \in BOOLEAN : get_work_categories(can_create)
    \/ \E can_create \in BOOLEAN : get_note_categories(can_create)
    \/ \E content \in Contents : WriteFile(content)
    \/ RemoveFile
    \/ Chmod

CatSpec == InitCat /\ [][NextCat]_vars

(* ---- The bot process (bot.py: main) ----                                *)
(* main() is a plain function.  Application.run_polling starts an event    *)
(* loop, serves updates on it and returns when the bot is stopped, the     *)
(* loop being closed by then; the statements after it run with no event    *)
(* loop.  asyncio.create_task schedules a coroutine on the running loop    *)
(* and raises RuntimeError where there is none.                            *)

\* an event loop is running: only inside run_polling
LoopRunning(pc) == pc = "polling"

\* asyncio.create_task(coro) called where main() is at pc
create_task(a, name) ==
    IF LoopRunning(a.pc)
    THEN [a EXCEPT !.tasks = @ \cup {name}]
    ELSE [a EXCEPT !.pc = "raised"]

\* main(): asyncio.run(init())
main_init ==
    /\ app.pc = "start"
    /\ app' = [app EXCEPT !.pc = "built"]
    /\ last' = NoCall
    /\ UNCHANGED <<clock, sessions, breaks, calls, remvars, cfgvars>>

\* main(): the handlers are added and application.run_polling is entered
main_run_polling ==
    /\ app.pc = "built"
    /\ app' = [app EXCEPT !.pc = "polling"]
    /\ last' = NoCall
    /\ UNCHANGED <<clock, sessions, breaks, calls, remvars, cfgvars>>

\* the bot is stopped (SIGINT, SIGTERM): run_polling returns
main_stopped ==
    /\ app.pc = "polling"
    /\ app' = [app EXCEPT !.pc = "returned"]
    /\ last' = NoCall
    /\ UNCHANGED <<clock, sessions, breaks, calls, remvars, cfgvars>>

\* main(): asyncio.create_task(reminder_scheduler(application.bot)), the
\* statement after run_polling
main_create_task ==
    /\ app.pc = "returned"
    /\ app' = create_task(app, "reminder_scheduler")
    /\ last' = NoCall
    /\ UNCHANGED <<clock, sessions, breaks, calls, remvars, cfgvars>>

\* an update is handled: only while run_polling serves the loop
start_work_command(u) ==
    /\ app.pc = "polling"
    /\ start_work_session(u, "work")

end_work_command(u) ==
    /\ app.pc = "polling"
    /\ end_work_session(u)

InitMain ==
    /\ clock = RemInstants[1]
    /\ sessions = <<>>
    /\ breaks = <<>>
    /\ last = NoCall
    /\ calls = [p \in Procs |-> Idle]
    /\ settings = NoRows
    /\ sent_reminders = <<>>
    /\ tz = 0
    /\ file = NoFile
    /\ config = NotLoaded
    /\ app = NotStarted

NextMain ==
    \/ main_init
    \/ main_run_polling
    \/ main_stopped
    \/ main_create_task
    \/ Pass
    \/ \E u \in Users : start_work_command(u)
    \/ \E u \in Users : end_work_command(u)

MainSpec == InitMain /\ [][NextMain]_vars

\* main() goes on to its next statement whenever it has one; when the bot
\* is stopped, when updates come and how time passes is not up to the code
MainLive ==
    /\ MainSpec
    /\ WF_vars(main_init)
    /\ WF_vars(main_run_polling)
    /\ WF_vars(main_create_task)

(* ======================= properties ======================= *)

\* the sessions of user u with status Active or Paused
InFlight(u) ==
    {i \in DOMAIN sessions :
        sessions[i].user_id = u /\ sessions[i].status \in {ACTIVE, PAUSED}}

\* the breaks of session sid with a null end time
OpenBreaks(sid) ==
    {b \in DOMAIN breaks : breaks[b].session_id = sid /\ breaks[b].end_time = NULL}

\* the step is a call of op by user u that has just returned
Called(op, u) == last'.op = op /\ last'.user_id = u

\* C1: with start, pause, resume and end applied one at a time, no user
\* ever has more than one session with status Active or Paused.
C1_AtMostOneInFlight == \A u \in Users : Cardinality(InFlight(u)) <= 1

C1_Witness ==
    \E i, j \in DOMAIN sessions :
        /\ sessions[i].user_id = sessions[j].user_id
        /\ sessions[i].status = COMPLETED
        /\ sessions[j].status \in {ACTIVE, PAUSED}

\* C2: with overlapping start calls, the lookup of an open session and the
\* insert act as one step: whenever a start inserts a session for a user,
\* that user has no session in {Active, Paused} at that moment.
C2_StartIndivisible ==
    [][\A p \in Procs :
          (calls[p].pc = "write" /\ calls[p].op = "start" /\ calls'[p].pc = "idle")
          => InFlight(calls[p].user_id) = {}]_vars

\* C3: a start for a user who has an open session returns -1 and changes no
\* row; a start creates a session only when the user has none open.
C3_OnlyFirstStartCreates ==
    [][\A u \in Users :
          Called("start", u) =>
             IF InFlight(u) # {}
             THEN last'.ret = -1 /\ sessions' = sessions /\ breaks' = breaks
             ELSE /\ last'.ret = Len(sessions) + 1
                  /\ Len(sessions') = Len(sessions) + 1
                  /\ SubSeq(sessions', 1, Len(sessions)) = sessions
                  /\ breaks' = breaks]_vars

C3_Witness ==
    /\ last.op = "start" /\ last.ret = -1
    /\ \E i \in InFlight(last.user_id) : sessions[i].status = PAUSED

\* C4: end on a user whose open session is Paused completes that session
\* (end time, duration, status Completed), as it does for an Active one.
C4_EndCompletesPaused ==
    [][\A u \in Users :
          LET sid == SelectSession(sessions, u, {PAUSED})
          IN  (Called("end", u) /\ sid # 0) =>
                 /\ last'.ret = sid
                 /\ sessions'[sid].status = COMPLETED
                 /\ sessions'[sid].end_time = clock
                 /\ sessions'[sid].duration =
                        (clock - sessions[sid].start_time) \div Sub]_vars

C6_PauseEffect ==
    [][\A u \in Users :
          LET sid == SelectSession(sessions, u, {ACTIVE})
          IN  (Called("pause", u) /\ sid # 0) =>
                 /\ last'.ret = sid
                 /\ sessions' = [sessions EXCEPT ![sid].status = PAUSED]
                 /\ Len(breaks') = Len(breaks) + 1
                 /\ SubSeq(breaks', 1, Len(breaks)) = breaks
                 /\ LET new == breaks'[Len(breaks')]
                    IN  /\ new.session_id = sid
                        /\ new.user_id = u
                        /\ new.start_time = clock
                        /\ new.reason = last'.arg
                        /\ new.end_time = NULL
                        /\ new.duration = NULL]_vars

C6_Witness ==
    /\ last.op = "pause" /\ last.ret # 0 /\ last.arg = "lunch"
    /\ sessions[last.ret].status = PAUSED
    /\ \E b \in OpenBreaks(last.ret) : breaks[b].reason = "lunch"

\* C7: pause on a user with no session, only Completed ones or a Paused one
\* returns none and changes no session and no break.
C7_PauseRejected ==
    [][\A u \in Users :
          (Called("pause", u) /\ SelectSession(sessions, u, {ACTIVE}) = 0) =>
             last'.ret = 0 /\ sessions' = sessions /\ breaks' = breaks]_vars

C7_Witness ==
    /\ last.op = "pause" /\ last.ret = 0
    /\ SelectSession(sessions, last.user_id, {PAUSED}) # 0

\* C8: resume on a user whose session is Paused sets it Active and closes
\* its open break with end = now and duration = floor(now - break.start) in
\* whole seconds; afterwards the session has no open break.
C8_ResumeClosesBreak ==
    [][\A u \in Users :
          LET sid == SelectSession(sessions, u, {PAUSED})
          IN  (Called("resume", u) /\ sid # 0) =>
                 /\ sessions'[sid].status = ACTIVE
                 /\ \A b \in OpenBreaks(sid) :
                       /\ breaks'[b].end_time = clock
                       /\ breaks'[b].duration =
                              (clock - breaks[b].start_time) \div Sub
                 /\ \A b \in DOMAIN breaks' :
                       breaks'[b].session_id = sid => breaks'[b].end_time # NULL]_vars

\* C9: resume on a user with no Paused session (none, an Active one, only
\* Completed ones) returns none and changes no session and no break.
C9_ResumeRejected ==
    [][\A u \in Users :
          (Called("resume", u) /\ SelectSession(sessions, u, {PAUSED}) = 0) =>
             last'.ret = 0 /\ sessions' = sessions /\ breaks' = breaks]_vars

C9_Witness ==
    /\ last.op = "resume" /\ last.ret = 0
    /\ SelectSession(sessions, last.user_id, {ACTIVE}) # 0

\* C10: an end that succeeds sets end = now, status Completed and
\* duration = floor(now - start) in whole seconds: the time elapsed since
\* start, whatever time the session spent in breaks.
C10_EndDuration ==
    [][\A u \in Users :
          (Called("end", u) /\ last'.ret # 0) =>
             LET sid == last'.ret
             IN  /\ sid \in InFlight(u)
                 /\ sessions' = [sessions EXCEPT
                        ![sid].end_time = clock,
                        ![sid].status = COMPLETED,
                        ![sid].duration = (clock - sessions[sid].start_time) \div Sub]
                 /\ breaks' = breaks]_vars

C10_Witness ==
    /\ last.op = "end" /\ last.ret # 0
    /\ sessions[last.ret].duration >= 1
    /\ \E b \in DOMAIN breaks :
          breaks[b].session_id = last.ret /\ breaks[b].duration >= 1

\* C11: end on a user with no open session (none at all, or only Completed
\* ones) returns none and changes no session and no break.
C11_EndRejected ==
    [][\A u \in Users :
          (Called("end", u) /\ InFlight(u) = {}) =>
             last'.ret = 0 /\ sessions' = sessions /\ breaks' = breaks]_vars

C11_Witness ==
    /\ last.op = "end" /\ last.ret = 0
    /\ InFlight(last.user_id) = {}
    /\ \E i \in DOMAIN sessions :
          sessions[i].user_id = last.user_id /\ sessions[i].status = COMPLETED

\* C12: a session's status changes only Active -> Paused (in a pause),
\* Paused -> Active (in a resume) or Active/Paused -> Completed (in an end);
\* a Completed session keeps every field, and every row stays in the table.
C12_Transitions ==
    [][\A i \in DOMAIN sessions :
          /\ i \in DOMAIN sessions'
          /\ sessions'[i].id = sessions[i].id
          /\ sessions[i].status = COMPLETED => sessions'[i] = sessions[i]
          /\ sessions'[i].status # sessions[i].status =>
                \/ /\ sessions[i].status = ACTIVE /\ sessions'[i].status = PAUSED
                   /\ Called("pause", sessions[i].user_id)
                \/ /\ sessions[i].status = PAUSED /\ sessions'[i].status = ACTIVE
                   /\ Called("resume", sessions[i].user_id)
                \/ /\ sessions[i].status \in {ACTIVE, PAUSED}
                   /\ sessions'[i].status = COMPLETED
                   /\ Called("end", sessions[i].user_id)]_vars

C12_Witness ==
    \E i \in DOMAIN sessions :
        /\ sessions[i].status = COMPLETED
        /\ \E b \in DOMAIN breaks :
              breaks[b].session_id = i /\ breaks[b].end_time # NULL
        /\ last.op \in {"pause", "resume", "end"} /\ last.ret = 0
        /\ last.user_id = sessions[i].user_id

\* C13: a start for a user whose sessions are all Completed (at least one)
\* returns a fresh id and appends one session: that id, that user, status
\* Active, start = now, end time and duration null; every earlier row is
\* left as it was.
C13_StartAfterCompleted ==
    [][\A u \in Users :
          (/\ Called("start", u)
           /\ InFlight(u) = {}
           /\ \E i \in DOMAIN sessions :
                 sessions[i].user_id = u /\ sessions[i].status = COMPLETED) =>
             /\ last'.ret \notin {sessions[i].id : i \in DOMAIN sessions}
             /\ last'.ret > 0
             /\ Len(sessions') = Len(sessions) + 1
             /\ SubSeq(sessions', 1, Len(sessions)) = sessions
             /\ LET new == sessions'[Len(sessions')]
                IN  /\ new.id = last'.ret
                    /\ new.user_id = u
                    /\ new.status = ACTIVE
                    /\ new.start_time = clock
                    /\ new.end_time = NULL
                    /\ new.duration = NULL
                    /\ new.category = last'.arg
             /\ breaks' = breaks]_vars

C13_Witness ==
    /\ last.op = "start" /\ last.ret > 1
    /\ sessions[last.ret].status = ACTIVE
    /\ sessions[last.ret].start_time > 0
    /\ \E i \in DOMAIN sessions :
          /\ sessions[i].user_id = last.user_id
          /\ sessions[i].status = COMPLETED
          /\ sessions[i].end_time <= sessions[last.ret].start_time

\* C14: in a Completed session the duration is floor(end - start) in whole
\* seconds, and every break of the session is closed with
\* duration = floor(resume time - pause time) in whole seconds.
C14_CyclesThenEnd ==
    \A i \in DOMAIN sessions :
        sessions[i].status = COMPLETED =>
           /\ sessions[i].duration =
                  (sessions[i].end_time - sessions[i].start_time) \div Sub
           /\ \A b \in DOMAIN breaks :
                 breaks[b].session_id = i =>
                    /\ breaks[b].end_time # NULL
                    /\ breaks[b].duration =
                           (breaks[b].end_time - breaks[b].start_time) \div Sub

(* ---- aggregation ---- *)

RECURSIVE Sum(_)
\* the sum of the values of a function with a finite domain
Sum(f) ==
    IF DOMAIN f = {} THEN 0
    ELSE LET x == CHOOSE y \in DOMAIN f : TRUE
         IN  f[x] + Sum([y \in DOMAIN f \ {x} |-> f[y]])

\* the sessions of user u whose start time lies in the window [lo, hi]
StartedIn(u, lo, hi) ==
    {i \in DOMAIN sessions :
        /\ sessions[i].user_id = u
        /\ lo <= sessions[i].start_time /\ sessions[i].start_time <= hi}

\* the sessions of user u that overlap the window [lo, hi]
Overlapping(u, lo, hi) ==
    {i \in DOMAIN sessions :
        /\ sessions[i].user_id = u
        /\ sessions[i].start_time <= hi
        /\ (sessions[i].end_time = NULL \/ sessions[i].end_time >= lo)}

\* the Monday of the calendar week that contains date d
MondayOf(d) == CHOOSE m \in (d - 6)..d : m % 7 = 0

\* what a set of sessions adds up to per category: Completed ones only
CategoryTotals(S) ==
    LET done == {i \in S : sessions[i].status = COMPLETED}
    IN  [c \in {sessions[i].category : i \in done} |->
            [count |-> Cardinality({i \in done : sessions[i].category = c}),
             duration |-> Sum([i \in {j \in done : sessions[j].category = c} |->
                                  sessions[i].duration])]]

\* C15: a daily report counts in total_sessions every session of the user
\* that overlaps the day, and in active_sessions every open one among them:
\* an open session is counted on every day from its start day onward.
C15_DailySelectsOverlap ==
    last.op = "stats" =>
       \A d \in {x \in QueryDates : x <= DateOf(clock)} :
          LET u == last.user_id
              st == get_daily_stats(sessions, breaks, u, d)
              ov == Overlapping(u, DayMin(d), DayMax(d))
          IN  /\ st.total_sessions = Cardinality(ov)
              /\ st.active_sessions =
                    Cardinality({i \in ov : sessions[i].status \in {ACTIVE, PAUSED}})

\* the store after start at 09:00, pause at 12:00, resume at 12:30 and end
\* at 17:00 of Wednesday 31 January, by user 1 in category "work"
DayOfWorkSessions ==
    CompleteSession(InsertSession(<<>>, 1, At(30, 9, 0, 0, 0), "work"),
                    1, At(30, 17, 0, 0, 0), At(30, 9, 0, 0, 0))

DayOfWorkBreaks ==
    CloseBreaks(InsertBreak(<<>>, 1, 1, At(30, 12, 0, 0, 0), "lunch"),
                1, At(30, 12, 30, 0, 0))

\* C16: in a daily report total_duration and categories are the sums and
\* counts over the selected Completed sessions, active_sessions counts the
\* selected Active and Paused ones, total_breaks counts every break of the
\* selected sessions and break_duration sums the closed ones.  One 8-hour
\* session with one 30-minute break gives total_duration 28800,
\* total_breaks 1, break_duration 1800 and one category with count 1 and
\* duration 28800.
C16_DailyTotals ==
    last.op = "stats" =>
       /\ LET ex == get_daily_stats(DayOfWorkSessions, DayOfWorkBreaks, 1, 30)
          IN  /\ ex.total_duration = 28800
              /\ ex.total_breaks = 1
              /\ ex.break_duration = 1800
              /\ ex.categories = ("work" :> [count |-> 1, duration |-> 28800])
       /\ \A d \in QueryDates :
          LET u == last.user_id
              st == get_daily_stats(sessions, breaks, u, d)
              selected == get_sessions_by_timeframe(sessions, u, DayMin(d), DayMax(d))
              sel == {selected[k].id : k \in DOMAIN selected}
              done == {i \in sel : sessions[i].status = COMPLETED}
              brs == {b \in DOMAIN breaks : breaks[b].session_id \in sel}
          IN  /\ st.total_sessions = Cardinality(sel)
              /\ st.total_duration = Sum([i \in done |-> sessions[i].duration])
              /\ st.categories = CategoryTotals(sel)
              /\ st.completed_sessions = Cardinality(done)
              /\ st.active_sessions = Cardinality(sel \ done)
              /\ st.total_breaks = Cardinality(brs)
              /\ st.break_duration =
                    Sum([b \in {x \in brs : breaks[x].end_time # NULL} |->
                            breaks[b].duration])

C16_Witness ==
    /\ last.op = "stats"
    /\ LET st == get_daily_stats(sessions, breaks, last.user_id, 30)
       IN  /\ st.total_duration = 28800
           /\ st.total_breaks = 1
           /\ st.break_duration > 0
           /\ st.categories = ("work" :> [count |-> 1, duration |-> 28800])

\* C17: a weekly report's total_sessions, total_duration, total_breaks and
\* break_duration are the sums of the seven daily reports of its week, and
\* its categories are the per-key sums of theirs.
C17_WeeklyIsSumOfDays ==
    last.op = "stats" =>
       \A d \in QueryWeeks :
          LET u == last.user_id
              w == get_weekly_stats(sessions, breaks, u, d)
              day == [k \in 0..6 |-> get_daily_stats(sessions, breaks, u, MondayOf(d) + k)]
              keys == UNION {DOMAIN day[k].categories : k \in 0..6}
              of(k, c) == IF c \in DOMAIN day[k].categories
                          THEN day[k].categories[c]
                          ELSE [count |-> 0, duration |-> 0]
          IN  /\ w.total_sessions = Sum([k \in 0..6 |-> day[k].total_sessions])
              /\ w.total_duration = Sum([k \in 0..6 |-> day[k].total_duration])
              /\ w.total_breaks = Sum([k \in 0..6 |-> day[k].total_breaks])
              /\ w.break_duration = Sum([k \in 0..6 |-> day[k].break_duration])
              /\ w.categories =
                    [c \in keys |->
                        [count |-> Sum([k \in 0..6 |-> of(k, c).count]),
                         duration |-> Sum([k \in 0..6 |-> of(k, c).duration])]]

C17_Witness ==
    /\ last.op = "stats"
    /\ \A i \in DOMAIN sessions :
          /\ sessions[i].status = COMPLETED
          /\ DateOf(sessions[i].start_time) = DateOf(sessions[i].end_time)
    /\ get_daily_stats(sessions, breaks, last.user_id, 30).total_duration = 28800
    /\ get_daily_stats(sessions, breaks, last.user_id, 34).total_sessions = 1
    /\ get_weekly_stats(sessions, breaks, last.user_id, 31).total_sessions = 2

\* C18: a weekly report asked for date d lists the seven days Monday to
\* Sunday of the calendar week of d, in that order, and is the same for any
\* two dates of one week; this for Database.get_weekly_stats and for
\* reports.get_weekly_stats.
C18_WeekIsMondayToSunday ==
    last.op = "stats" =>
       \A d \in QueryWeeks :
          LET u == last.user_id
              w == get_weekly_stats(sessions, breaks, u, d)
              week == [k \in 1..7 |-> MondayOf(d) + k - 1]
          IN  /\ [k \in DOMAIN w.daily_stats |-> w.daily_stats[k].date] = week
              /\ w = get_weekly_stats(sessions, breaks, u, MondayOf(d))
              /\ reports_week_dates(d, DateOf(clock)) = week

\* C19: a monthly report's total_duration and categories are the sum and
\* the per-category counts and sums over the user's Completed sessions that
\* started within the month, each taken once; Active and Paused sessions add
\* nothing to them.
C19_MonthlyFromSessions ==
    last.op = "stats" =>
       \A m \in QueryMonths :
          LET u == last.user_id
              mt == monthly_totals(sessions, breaks, u, m)
              sel == StartedIn(u, DayMin(MonthFirst(m)), DayMax(MonthLast(m)))
              done == {i \in sel : sessions[i].status = COMPLETED}
          IN  /\ mt.total_duration = Sum([i \in done |-> sessions[i].duration])
              /\ mt.categories = CategoryTotals(sel)

C19_Witness ==
    /\ last.op = "stats"
    /\ monthly_totals(sessions, breaks, last.user_id, 1).total_sessions = 2
    /\ monthly_totals(sessions, breaks, last.user_id, 1).total_duration = 28800
    /\ InFlight(last.user_id) # {}
    /\ monthly_totals(sessions, breaks, last.user_id, 2).total_sessions = 0

(* ---- reminders ---- *)

\* the local time at which row i of sent_reminders was logged, as logged
LoggedAt(i) == sent_reminders[i].sent_at + tz

\* at least the given minutes have passed since user u's last logged
\* reminder of the kind, or none was ever logged
LastLoggedBefore(u, kind, minutes) ==
    \A i \in DOMAIN sent_reminders :
        (sent_reminders[i].user_id = u /\ sent_reminders[i].reminder_type = kind)
           => clock - LoggedAt(i) >= Minutes(minutes)

Kinds == {"work_reminder", "break_reminder", "long_break_reminder", "daily_goal"}

Interval(s, kind) ==
    CASE kind = "work_reminder" -> s.work_reminder_minutes
      [] kind = "break_reminder" -> s.break_reminder_minutes
      [] kind = "long_break_reminder" -> s.long_break_reminder_minutes
      [] kind = "daily_goal" -> 60

\* the rows of the log for user u and the kind
LogRows(u, kind) ==
    {i \in DOMAIN sent_reminders :
        sent_reminders[i].user_id = u /\ sent_reminders[i].reminder_type = kind}

SessionKinds == {"work_reminder", "break_reminder", "long_break_reminder"}

\* the log with the rows of one kind only
OnlyKind(log, kind) == SelectSeq(log, LAMBDA r : r.reminder_type = kind)

\* the kind fires for user u in a tick that finds no row of any other kind
\* in the log
FiresAlone(u, kind) ==
    <<u, kind>> \in CheckUser([log |-> OnlyKind(sent_reminders, kind), fired |-> {}],
                              u, sessions, breaks, settings, clock, tz).fired

\* the firing of one kind does not depend on the rows of the other kinds,
\* those appended earlier in the same tick included
DecidedSeparately ==
    \A u \in Users : \A kind \in SessionKinds :
       (<<u, kind>> \in last'.ret.fired) <=> FiresAlone(u, kind)

C27_SettingsPartialUpdate ==
    [][/\ \A u \in Users \ DOMAIN settings :
             get_reminder_settings(settings, u) =
                [work_reminder_enabled |-> 1, work_reminder_minutes |-> 60,
                 break_reminder_enabled |-> 1, break_reminder_minutes |-> 15,
                 long_break_reminder_enabled |-> 1, long_break_reminder_minutes |-> 120,
                 daily_goal_enabled |-> 0, daily_goal_minutes |-> 480]
       /\ (last'.op = "settings" /\ last'.ret.ok) =>
             LET u == last'.user_id
                 kw == last'.ret.kw
                 before == get_reminder_settings(settings, u)
                 after == get_reminder_settings(settings', u)
             IN  /\ u \in DOMAIN settings'
                 /\ \A f \in DOMAIN before :
                       after[f] = IF f \in DOMAIN kw THEN kw[f] ELSE before[f]]_vars

\* an update of an existing row that leaves alone a field changed earlier
C27_Witness ==
    /\ last.op = "settings"
    /\ last.ret.ok
    /\ \E f \in DOMAIN DefaultSettings \ DOMAIN last.ret.kw :
          settings[last.user_id][f] # DefaultSettings[f]

(* ---- one user beside another ---- *)

\* the table without the rows of the users other than a: their rows stay
\* in place, so that the row ids are the same, and belong to nobody
Blank(rows, a) ==
    [i \in DOMAIN rows |->
        IF rows[i].user_id = a THEN rows[i] ELSE [rows[i] EXCEPT !.user_id = 0]]

BlankBreaks(rows, a) ==
    [i \in DOMAIN rows |->
        IF rows[i].user_id = a THEN rows[i]
        ELSE [rows[i] EXCEPT !.user_id = 0, !.session_id = 0]]

OwnSettings(a) == IF a \in DOMAIN settings THEN a :> settings[a] ELSE NoRows

\* the rows of the table that are in it before and after the step are the
\* same, except those of user a, and every new row is a row of user a
OthersKept(before, after, a) ==
    /\ Len(after) >= Len(before)
    /\ \A i \in DOMAIN before : before[i].user_id # a => after[i] = before[i]
    /\ \A i \in DOMAIN after \ DOMAIN before : after[i].user_id = a

\* a step of user a that leaves the rows of every other user as they were
OthersUnchanged(a) ==
    /\ OthersKept(sessions, sessions', a)
    /\ OthersKept(breaks, breaks', a)
    /\ OthersKept(sent_reminders, sent_reminders', a)
    /\ \A b \in Users \ {a} :
          /\ b \in DOMAIN settings' <=> b \in DOMAIN settings
          /\ b \in DOMAIN settings => settings'[b] = settings[b]

\* the call of user a that returned was accepted
Accepted == IF last'.op = "start" THEN last'.ret # -1 ELSE last'.ret # 0

\* the call of user a would be accepted if the store held the rows of a only
AcceptedAlone(a) ==
    LET own == Blank(sessions, a)
    IN  CASE last'.op = "start" -> SelectSession(own, a, {ACTIVE, PAUSED}) = 0
          [] last'.op = "end" -> SelectSession(own, a, {ACTIVE}) # 0
          [] last'.op = "pause" -> SelectSession(own, a, {ACTIVE}) # 0
          [] last'.op = "resume" -> SelectSession(own, a, {PAUSED}) # 0

\* what the evaluator does for user a if the store held the rows of a only
CheckedAlone(a) ==
    CheckUser([log |-> Blank(sent_reminders, a), fired |-> {}], a,
              Blank(sessions, a), BlankBreaks(breaks, a), OwnSettings(a), clock, tz)

OfUser(rows, a) == SelectSeq(rows, LAMBDA r : r.user_id = a)

C30_SerialOutcome ==
    \A sid \in DOMAIN sessions :
       /\ Cardinality(OpenBreaks(sid)) <= 1
       /\ sessions[sid].status = COMPLETED => OpenBreaks(sid) = {}

(* ---- category configuration ---- *)

\* the list the file gives for a key: the file's list when the file can be
\* read, is a JSON object and holds a non-empty list under the key, else
\* the default list
ListOfFile(f, key) ==
    IF f.exists /\ f.readable /\ f.content.json = "dict"
    THEN IF key = "work" THEN Validated(f.content.work, DefaultWork)
                         ELSE Validated(f.content.note, DefaultNote)
    ELSE IF key = "work" THEN DefaultWork ELSE DefaultNote

\* C29: whatever the state of the category file and whatever calls came
\* before, both lists are non-empty after a load or reload and are the
\* file's lists where the file is valid and the defaults where it is not;
\* get_work_categories and get_note_categories return these lists.
C29_CategoriesValid ==
    [][/\ last'.op = "load" =>
             /\ config'._work_categories = ListOfFile(file', "work")
             /\ config'._note_categories = ListOfFile(file', "note")
       /\ last'.op = "get_work" =>
             /\ last'.ret # <<>>
             /\ last'.ret = config'._work_categories
             /\ config._work_categories = <<>> => last'.ret = ListOfFile(file', "work")
       /\ last'.op = "get_note" =>
             /\ last'.ret # <<>>
             /\ last'.ret = config'._note_categories
             /\ config._note_categories = <<>> => last'.ret = ListOfFile(file', "note")]_vars

(* ---- the weeks of a monthly report ---- *)

\* the months of the calendar stretch
CalendarMonths == DOMAIN MonthLengths

\* the dates covered by an entry of weekly_stats: start_date .. end_date
EntryDays(entry) == entry.start_date .. entry.end_date

\* the calendar weeks, by their Mondays, that share a day with month m
WeeksOfMonth(m) == {MondayOf(d) : d \in MonthFirst(m)..MonthLast(m)}

\* C31: the weekly_stats list of a monthly report has one entry per
\* calendar week that shares a day with the month, in calendar order, the
\* first one being the week of day 1: every day of the month lies in the
\* week of exactly one entry and no week of the month is left out.
C31_MonthPartition ==
    last.op = "stats" =>
       \A m \in CalendarMonths :
          LET ws == get_monthly_stats(sessions, breaks, last.user_id, m).weekly_stats
          IN  /\ Len(ws) >= 1
              /\ MonthFirst(m) \in EntryDays(ws[1])
              /\ \A k \in 1..(Len(ws) - 1) : ws[k].start_date < ws[k + 1].start_date
              /\ \A d \in MonthFirst(m)..MonthLast(m) :
                    Cardinality({k \in DOMAIN ws : d \in EntryDays(ws[k])}) = 1
              /\ {ws[k].start_date : k \in DOMAIN ws} = WeeksOfMonth(m)

(* ---- end and the breaks table ---- *)

\* session i is ended by this step
EndedNow(i) ==
    /\ sessions[i].status # COMPLETED
    /\ sessions'[i].status = COMPLETED

\* break k is open and its session was Completed with it open
OpenAtEnd(k) ==
    /\ breaks[k].end_time = NULL
    /\ sessions[breaks[k].session_id].status = COMPLETED

\* C32: a step that ends a session leaves the breaks table as it is, and
\* a break that was open when its session was ended is the same open row
\* after every later step.
C32_EndLeavesBreaks ==
    [][/\ (\E i \in DOMAIN sessions : EndedNow(i)) => breaks' = breaks
       /\ \A k \in DOMAIN breaks :
             OpenAtEnd(k) => /\ k \in DOMAIN breaks'
                             /\ breaks'[k] = breaks[k]]_vars

(* ---- a storage failure inside pause or resume ---- *)

\* the open breaks of session sid in table bs
OpenIn(bs, sid) ==
    {b \in DOMAIN bs : bs[b].session_id = sid /\ bs[b].end_time = NULL}

\* C33: when a statement or the commit of pause or resume fails, the
\* caller gets the failure and the sessions and breaks tables are what they
\* were before the call: no session is left Paused without an open break
\* and none is left Active with one.
C33_AllOrNothing ==
    [][(last'.op \in {"pause", "resume"} /\ last'.ret = Raised) =>
          /\ sessions' = sessions
          /\ breaks' = breaks
          /\ \A sid \in DOMAIN sessions' :
                /\ sessions'[sid].status = PAUSED => OpenIn(breaks', sid) # {}
                /\ sessions'[sid].status = ACTIVE => OpenIn(breaks', sid) = {}]_vars

\* a resume has failed some time into the break of a Paused session
C33_Witness ==
    /\ last.op = "resume"
    /\ last.ret = Raised
    /\ \E sid \in InFlight(last.user_id) :
          /\ sessions[sid].status = PAUSED
          /\ \E b \in OpenBreaks(sid) : breaks[b].start_time < clock

(* ---- the scheduler loop ---- *)

\* the bot is serving and the work reminder of user u is due: u has a
\* session in flight for at least the interval, the reminder is enabled
\* and none was logged within the interval
WorkReminderDue(u) ==
    /\ app.pc = "polling"
    /\ \E sid \in InFlight(u) :
          LET s == get_reminder_settings(settings, u)
          IN  /\ s.work_reminder_enabled # 0
              /\ MinutesSince(clock, sessions[sid].start_time, s.work_reminder_minutes)
              /\ MinutesSince(clock, get_last_reminder_time(sent_reminders, u, "work_reminder"),
                              s.work_reminder_minutes)

\* C34: while the bot serves updates the scheduler task gets started, and
\* a work reminder that is due does not stay due for ever: it is sent and
\* logged, unless its conditions or the bot end first.
C34_SchedulerRuns ==
    /\ (app.pc = "polling") ~>
          ("reminder_scheduler" \in app.tasks \/ app.pc # "polling")
    /\ \A u \in Users : WorkReminderDue(u) ~> ~WorkReminderDue(u)

(* ---- a tick in which one user's evaluation raises ---- *)

\* what the evaluation of user v alone appends and fires in this state
TickOf(v) ==
    CheckUser([log |-> sent_reminders, fired |-> {}], v, sessions, breaks,
              settings, clock, tz)

AppendedRows(u, kind) ==
    {i \in DOMAIN sent_reminders' \ DOMAIN sent_reminders :
        sent_reminders'[i].user_id = u /\ sent_reminders'[i].reminder_type = kind}

C37_SessionColumns ==
    \A i \in DOMAIN sessions :
       LET s == sessions[i]
       IN  /\ (s.end_time # NULL) <=> (s.duration # NULL)
           /\ (s.duration # NULL) <=> (s.status = COMPLETED)
           /\ s.status = COMPLETED =>
                 /\ s.end_time >= s.start_time
                 /\ s.duration >= 0
                 /\ s.duration * Sub <= s.end_time - s.start_time
                 /\ s.end_time - s.start_time < (s.duration + 1) * Sub

\* a session completed a fraction of a second after a whole number of
\* seconds, beside a session still in flight
C37_Witness ==
    /\ \E i \in DOMAIN sessions :
          /\ sessions[i].status = COMPLETED
          /\ (sessions[i].end_time - sessions[i].start_time) % Sub # 0
    /\ \E j \in DOMAIN sessions :
          /\ sessions[j].status = ACTIVE
          /\ sessions[j].start_time < clock
          /\ sessions[j].end_time = NULL /\ sessions[j].duration = NULL

(* ---- no session is stuck ---- *)

\* the sessions of user u in flight after the step
InFlightAfter(u) ==
    {i \in DOMAIN sessions' :
        sessions'[i].user_id = u /\ sessions'[i].status \in {ACTIVE, PAUSED}}

\* C38: an in-flight session can always be brought to Completed by the
\* public operations, and start succeeds again afterwards: for a Paused
\* session resume is accepted and makes it Active, for an Active session
\* end is accepted and leaves the user with no session in flight, and for
\* a user with no session in flight start is accepted.
C38_NeverStuck ==
    \A u \in Users :
       /\ (\E i \in InFlight(u) : sessions[i].status = PAUSED) =>
             ENABLED (/\ resume_work_session(u)
                      /\ last'.ret # 0
                      /\ sessions'[last'.ret].status = ACTIVE
                      /\ InFlightAfter(u) = InFlight(u))
       /\ (\E i \in InFlight(u) : sessions[i].status = ACTIVE) =>
             ENABLED (/\ end_work_session(u)
                      /\ last'.ret # 0
                      /\ sessions'[last'.ret].status = COMPLETED
                      /\ InFlightAfter(u) = {})
       /\ (InFlight(u) = {} /\ Len(sessions) + Len(breaks) < MaxRows) =>
             ENABLED (/\ start_work_session(u, "work")
                      /\ last'.ret > 0
                      /\ InFlightAfter(u) = {last'.ret})

\* a session that was paused and resumed has been ended, and its user has
\* no session in flight
C38_Witness ==
    /\ last.op = "end"
    /\ last.ret # 0
    /\ sessions[last.ret].status = COMPLETED
    /\ \E b \in DOMAIN breaks :
          breaks[b].session_id = last.ret /\ breaks[b].end_time # NULL
    /\ InFlight(last.user_id) = {}

(* ---- the month and its days ---- *)

\* the daily reports of user u for the days of month m
DaysOfMonth(u, m) ==
    [d \in MonthFirst(m)..MonthLast(m) |-> get_daily_stats(sessions, breaks, u, d)]

\* C39: the total_sessions, total_duration and total_breaks of a monthly
\* report are the sums of the same fields of the daily reports of the days
\* of the month, whatever the store holds, sessions that start on one day
\* and end on another included.
C39_MonthIsSumOfDays ==
    last.op = "stats" =>
       \A m \in QueryMonths :
          LET mt == get_monthly_stats(sessions, breaks, last.user_id, m)
              days == DaysOfMonth(last.user_id, m)
          IN  /\ mt.total_sessions = Sum([d \in DOMAIN days |-> days[d].total_sessions])
              /\ mt.total_duration = Sum([d \in DOMAIN days |-> days[d].total_duration])
              /\ mt.total_breaks = Sum([d \in DOMAIN days |-> days[d].total_breaks])

\* a report asked for by a user whose session began on 31 January, had a
\* break and was completed in February
C39_Witness ==
    /\ last.op = "stats"
    /\ \E i \in DOMAIN sessions :
          /\ sessions[i].user_id = last.user_id
          /\ sessions[i].status = COMPLETED
          /\ DateOf(sessions[i].start_time) = MonthLast(1)
          /\ DateOf(sessions[i].end_time) > MonthLast(1)
          /\ \E b \in DOMAIN breaks : breaks[b].session_id = i
    /\ get_monthly_stats(sessions, breaks, last.user_id, 1).total_duration > 0
    /\ get_monthly_stats(sessions, breaks, last.user_id, 2).total_sessions = 0

(* ---- the two daily reports ---- *)

\* C40: reports.get_daily_stats returns a result for every store and date,
\* a selected session that is still open included, and its
\* total_work_seconds is the total_duration of Database.get_daily_stats
\* for the same store and date, open sessions adding nothing.
C40_ReportsAgree ==
    last.op = "stats" =>
       \A d \in QueryDates :
          LET r == reports_get_daily_stats(sessions, last.user_id, d)
          IN  /\ ~r.raised
              /\ r.total_work_seconds =
                    get_daily_stats(sessions, breaks, last.user_id, d).total_duration

====
